---- MODULE Spec2Model ----
(***************************************************************************)
(* Model of the Overtime-Cards engine (backend/games/cards): the shared    *)
(* BaseGame life cycle, the eight rule variants, the state view            *)
(* (get_game_state) and the snapshot export / restore of main.game_action. *)
(*                                                                         *)
(* A card is a number 0..51: suit index = c \div 13 in the order of the    *)
(* Suit enum (hearts, diamonds, clubs, spades), rank index = c % 13 in the *)
(* order of the Rank enum (A, 2, ..., K).  A Python list is a sequence,    *)
(* list.pop() removes the last element.  A dict keyed by player id is a    *)
(* function whose DOMAIN is the set of keys; the insertion order of        *)
(* BaseGame.players is the sequence `players`.                             *)
(***************************************************************************)
EXTENDS Integers, Sequences, FiniteSets, TLC

\* ---------------------------------------------------------------- bounds
MaxPlayers == 4
NumShuffles == 2
MaxSteps == 3
MaxLifecycleCalls == 2
MaxStepsAfter == 1
MaxIndex == 0
MaxViewer == 1
MaxTrickSteps == 9
MaxScatSteps == 4
MaxRestartSteps == 2
MaxRummySteps == 2
MaxDrawSteps == 4
MaxSnapSteps == 3
MaxBluffSteps == 3

\* ------------------------------------------------------ program constants
DeckSize == 52
NumRanks == 13
HEARTS == 0
DIAMONDS == 1
CLUBS == 2
SPADES == 3
ACE == 0
TWO == 1
THREE == 2
FOUR == 3
FIVE == 4
SIX == 5
SEVEN == 6
TEN == 9
JACK == 10
QUEEN == 11
KING == 12
SnapCardsPerPlayer == 4
DefaultCardsPerPlayer == 7
GoFishSmallTable == 3
GoFishFewCards == 5
ScatHandSize == 3
KingsCornerFoundations == 4
SpadesHandSize == 13
SpadesRequiredPlayers == 4
SpadesTargetScore == 500
SpoonsMinPlayers == 3
SpoonsCardsPerHand == 4
BluffMaxSelectable == 4
ScatInitialLives == 3
ScatMaxHandValue == 31
BaseMinPlayers == 2

PlayerIds == 1..MaxPlayers
NoPlayer == 0
Variants == {"snap", "go_fish", "bluff", "scat", "rummy", "kings_corner", "spades", "spoons"}
GameStates == {"waiting", "starting", "playing", "round_end", "game_end"}
Cards == 0..(DeckSize - 1)

\* ------------------------------------------------------------ Card, Deck
RankOf(c) == c % NumRanks
SuitOf(c) == c \div NumRanks

\* Card(rank, suit)
Card(rank, suit) == suit * NumRanks + rank

\* Card.value
CardValue(c) ==
  IF RankOf(c) = ACE THEN 11
  ELSE IF RankOf(c) >= JACK THEN 10
  ELSE RankOf(c) + 1

\* random.shuffle: one of NumShuffles permutations of the list, chosen by k.
\* Odd k rotates the list by 7*(k-1) places, even k reverses it first.
ShuffleIndex(n, k, i) ==
  IF k % 2 = 1
    THEN ((i - 1 + 7 * (k - 1)) % n) + 1
    ELSE ((n - i + 7 * (k - 2)) % n) + 1

Shuffle(s, k) ==
  IF Len(s) = 0 THEN s
  ELSE [i \in 1..Len(s) |-> s[ShuffleIndex(Len(s), k, i)]]

\* Deck.create_deck: suit-major construction, then shuffle
create_deck(k) == Shuffle([i \in 1..DeckSize |-> i - 1], k)

\* Deck.draw_multiple(count) on a deck that holds at least count cards
draw_multiple(d, count) == [j \in 1..count |-> d[Len(d) - j + 1]]

DropLast(d, count) == SubSeq(d, 1, Len(d) - count)

RemoveAt(s, i) == SubSeq(s, 1, i - 1) \o SubSeq(s, i + 1, Len(s))

SeqToSet(s) == {s[i] : i \in 1..Len(s)}

Min(a, b) == IF a <= b THEN a ELSE b
Max(a, b) == IF a >= b THEN a ELSE b

RECURSIVE SumLen(_, _)
SumLen(f, S) ==
  IF S = {} THEN 0
  ELSE LET x == CHOOSE y \in S : TRUE IN Len(f[x]) + SumLen(f, S \ {x})

RECURSIVE Flatten(_)
Flatten(ss) == IF ss = <<>> THEN <<>> ELSE Head(ss) \o Flatten(Tail(ss))

RECURSIVE ConcatAll(_, _)
ConcatAll(f, S) ==
  IF S = {} THEN <<>>
  ELSE LET x == CHOOSE y \in S : TRUE IN f[x] \o ConcatAll(f, S \ {x})

VARIABLES
  game,               \* which variant class the instance is
  players,            \* BaseGame.players, keys in insertion order
  hand,               \* Player.hand, per key of players
  score,              \* Player.score, per key of players
  deck,               \* BaseGame.deck.cards
  state,              \* BaseGame.state
  current_player_idx, \* BaseGame.current_player_idx
  direction,          \* BaseGame.direction
  last_action,        \* "unset" (no attribute), "none" or the action tag
  center_pile,        \* SnapGame.center_pile
  last_snap_time,     \* SnapGame.last_snap_time, keys by ascending timestamp
  last_card_time,     \* SnapGame.last_card_time: "none" or "set"
  sets,               \* GoFishGame.sets
  bluff_pile,         \* BluffGame.center_pile: <<[cards, rank]>>
  current_rank,       \* BluffGame.current_rank: -1 (None) or a rank index
  cards_per_play,     \* BluffGame.cards_per_play
  last_play_by,       \* 'player' of the last_action BluffGame.play_cards wrote last
  discard_pile,       \* ScatGame / RummyGame .discard_pile
  knocked_player_id,  \* ScatGame.knocked_player_id
  final_round,        \* ScatGame.final_round
  lives,              \* ScatGame.lives
  melds,              \* RummyGame.melds
  piles,              \* KingsCornerGame.piles
  current_trick,      \* SpadesGame.current_trick: <<[pid, card]>>
  tricks_won,         \* SpadesGame.tricks_won
  bids,               \* SpadesGame.bids
  scores,             \* SpadesGame.scores
  bags,               \* SpadesGame.bags
  spades_broken,      \* SpadesGame.spades_broken
  spoons,             \* SpoonsGame.spoons
  total_spoons,       \* SpoonsGame.total_spoons
  grabbed_spoons,     \* SpoonsGame.grabbed_spoons (its keys)
  loser,              \* SpoonsGame.loser (NoPlayer: never assigned)
  outcome,            \* of the call made last: "ok" it returned, "error" it raised
  view,               \* what the last get_game_state returned
  viewer,             \* for_player_id of that call
  budget,             \* game actions the exploration may still apply
  lifecycle           \* start_game / roster calls that changed the instance

baseVars == <<players, hand, score, deck, state, current_player_idx, direction, last_action>>
snapVars == <<center_pile, last_snap_time, last_card_time>>
bluffVars == <<bluff_pile, current_rank, cards_per_play, last_play_by>>
scatVars == <<discard_pile, knocked_player_id, final_round, lives>>
spadesVars == <<current_trick, tricks_won, bids, scores, bags, spades_broken>>
spoonsVars == <<spoons, total_spoons, grabbed_spoons, loser>>
variantVars == <<snapVars, sets, bluffVars, scatVars, melds, piles, spadesVars, spoonsVars>>
engine == <<game, baseVars, variantVars>>
vars == <<engine, outcome, view, viewer, budget, lifecycle>>

EmptyMap == [p \in {} |-> 0]

\* A view is the dict get_game_state returns: shape tells which of its
\* return statements built it ("raised": none, the call raised), error whether
\* the dict has the key 'error', keys which of the base keys it has; players is
\* the 'players' entry reduced to the hands, every card with its show_back
\* entry ("absent": the card dict has no such key).
BaseViewKeys ==
  {"room_code", "state", "host_id", "players", "current_player", "deck", "direction",
   "current_player_idx", "max_selectable_cards"}

BlankView ==
  [shape |-> "none", error |-> FALSE, keys |-> {}, state |-> "waiting", players |-> EmptyMap,
   current_player |-> NoPlayer, deck |-> [cards_remaining |-> 0], direction |-> 1,
   current_player_idx |-> 0, variant |-> <<>>]

NoView == BlankView
RaisedView == [BlankView EXCEPT !.shape = "raised"]


Roster == DOMAIN hand
n_players == Len(players)

IndexOf(p) == CHOOSE i \in 1..Len(players) : players[i] = p

\* BaseGame.current_player: players[idx] if players else None.  The property
\* raises IndexError when the roster is not empty and the index is past it.
CurrentPlayerRaises == players # <<>> /\ current_player_idx >= Len(players)
HasCurrentPlayer == players # <<>> /\ current_player_idx < Len(players)
current_player == players[current_player_idx + 1]
IsCurrent(p) == HasCurrentPlayer /\ current_player = p

\* BaseGame.next_turn (ZeroDivisionError on an empty roster is the caller's care)
next_turn(idx) == (idx + direction) % Len(players)

\* ------------------------------------------------------------ life cycle
\* _calculate_min_cards_needed of each variant class
min_cards_needed(n) ==
  CASE game = "snap" -> n * SnapCardsPerPlayer
    [] game = "go_fish" ->
         n * (IF n <= GoFishSmallTable THEN DefaultCardsPerPlayer ELSE GoFishFewCards) + n
    [] game = "bluff" -> DeckSize
    [] game = "scat" -> n * ScatHandSize + 1
    [] game = "kings_corner" -> n * DefaultCardsPerPlayer + KingsCornerFoundations
    [] game = "spades" -> n * SpadesHandSize
    [] game = "spoons" -> n * SpoonsCardsPerHand
    [] OTHER -> n * DefaultCardsPerPlayer

\* Deck.deal: round robin, one card per player per pass, appended to the hand
\* the player already holds.
deal(d, h, cards_per_player) ==
  [p \in DOMAIN h |->
     h[p] \o [j \in 1..cards_per_player |->
                d[Len(d) - ((j - 1) * Len(players) + IndexOf(p)) + 1]]]

\* BaseGame.start_game on an instance with hands h, deck d, state st and turn
\* index i; k is the shuffle of the fresh deck.  The result is what the call
\* leaves in deck, hands, state and turn index, and whether it returned (ok)
\* or raised.
BaseStartGame(h, d, st, i, k) ==
  LET n == Len(players)
      fresh == create_deck(k)
      need == min_cards_needed(n)
      cpp == need \div n
  IN IF n < BaseMinPlayers
       THEN [ok |-> FALSE, deck |-> d, hand |-> h, state |-> st, idx |-> i]
     ELSE IF DeckSize < need \/ n * cpp > Len(fresh)
       THEN [ok |-> FALSE, deck |-> fresh, hand |-> h, state |-> "waiting", idx |-> i]
     ELSE [ok |-> TRUE, deck |-> DropLast(fresh, n * cpp), hand |-> deal(fresh, h, cpp),
           state |-> "playing", idx |-> 0]

\* SnapGame.deal_initial_cards: consecutive draw_multiple, hands replaced
SnapDeal(d) ==
  [p \in Roster |->
     [j \in 1..SnapCardsPerPlayer |->
        d[Len(d) - ((IndexOf(p) - 1) * SnapCardsPerPlayer + j) + 1]]]

\* the sort key of SpadesGame.start_game: (suit.value, rank index); the suit
\* names order as clubs < diamonds < hearts < spades
SuitNameOrder(s) ==
  CASE s = CLUBS -> 0 [] s = DIAMONDS -> 1 [] s = HEARTS -> 2 [] OTHER -> 3
SpadesSortKey(c) == SuitNameOrder(SuitOf(c)) * NumRanks + RankOf(c)
SpadesSort(h) == SortSeq(h, LAMBDA a, b : SpadesSortKey(a) < SpadesSortKey(b))

\* a dict assignment d[key] = value for every key of K
SetKeys(f, K, v) == [p \in DOMAIN f \cup K |-> IF p \in K THEN v ELSE f[p]]
\* ... only where the key is missing
DefaultKeys(f, K, v) == [p \in DOMAIN f \cup K |-> IF p \in DOMAIN f THEN f[p] ELSE v]

Init ==
  /\ game \in Variants
  /\ players = <<>>
  /\ hand = EmptyMap
  /\ score = EmptyMap
  /\ \E k \in 1..NumShuffles : deck = create_deck(k)
  /\ state = "waiting"
  /\ current_player_idx = 0
  /\ direction = 1
  /\ last_action = IF game \in {"snap", "spades"} THEN "unset" ELSE "none"
  /\ center_pile = <<>>
  /\ last_snap_time = <<>>
  /\ last_card_time = "none"
  /\ sets = EmptyMap
  /\ bluff_pile = <<>>
  /\ current_rank = -1
  /\ cards_per_play = 1
  /\ last_play_by = NoPlayer
  /\ discard_pile = <<>>
  /\ knocked_player_id = NoPlayer
  /\ final_round = FALSE
  /\ lives = EmptyMap
  /\ melds = EmptyMap
  /\ piles = EmptyMap
  /\ current_trick = <<>>
  /\ tricks_won = EmptyMap
  /\ bids = EmptyMap
  /\ scores = EmptyMap
  /\ bags = EmptyMap
  /\ spades_broken = FALSE
  /\ spoons = 0
  /\ total_spoons = 0
  /\ grabbed_spoons = {}
  /\ loser = NoPlayer
  /\ outcome = "ok"
  /\ view = NoView
  /\ viewer = NoPlayer
  /\ budget = MaxSteps
  /\ lifecycle = 0

\* Bookkeeping of a game action, the last conjunct of the action: a call that
\* changed the instance uses up one unit of the budget.
Called ==
  /\ view' = NoView
  /\ viewer' = NoPlayer
  /\ UNCHANGED lifecycle
  /\ budget' = IF engine' = engine THEN budget ELSE budget - 1

\* Bookkeeping of start_game, remove_player and add_player of a seated id:
\* MaxLifecycleCalls of them may change the instance, and after the last of
\* them MaxStepsAfter game actions are explored.
LifecycleCalled ==
  /\ view' = NoView
  /\ viewer' = NoPlayer
  /\ lifecycle' = IF engine' = engine THEN lifecycle ELSE lifecycle + 1
  /\ budget' = IF lifecycle' >= MaxLifecycleCalls THEN Min(budget, MaxStepsAfter) ELSE budget

Raise == outcome' = "error"
Return == outcome' = "ok"

\* BaseGame.add_player: a new Player object (empty hand, score 0) under the key
add_player(p) ==
  /\ players' = IF p \in Roster THEN players ELSE Append(players, p)
  /\ hand' = [q \in Roster \cup {p} |-> IF q = p THEN <<>> ELSE hand[q]]
  /\ score' = [q \in Roster \cup {p} |-> IF q = p THEN 0 ELSE score[q]]

\* New ids join in the order 1, 2, ...; any id already seated can be added again.
NextFreeId == CHOOSE p \in PlayerIds \ Roster : \A q \in PlayerIds \ Roster : p <= q

AddPlayer(p) ==
  /\ \/ p \in Roster /\ lifecycle < MaxLifecycleCalls
     \/ Roster # PlayerIds /\ p = NextFreeId
  /\ add_player(p)
  /\ Return
  /\ UNCHANGED <<game, deck, state, current_player_idx, direction, last_action, variantVars>>
  /\ IF p \in Roster
       THEN LifecycleCalled
       ELSE /\ view' = NoView
            /\ viewer' = NoPlayer
            /\ UNCHANGED <<budget, lifecycle>>

\* BaseGame.remove_player
RemovePlayer(p) ==
  /\ lifecycle < MaxLifecycleCalls
  /\ players' = SelectSeq(players, LAMBDA q : q # p)
  /\ hand' = [q \in Roster \ {p} |-> hand[q]]
  /\ score' = [q \in Roster \ {p} |-> score[q]]
  /\ Return
  /\ UNCHANGED <<game, deck, state, current_player_idx, direction, last_action, variantVars>>
  /\ LifecycleCalled

\* start_game of the instance's class (SnapGame, SpadesGame and SpoonsGame
\* override it, the other five inherit BaseGame.start_game) on an instance
\* with hands h, deck d, state st, turn index i and the Spades dicts tw, bd,
\* sc, bg.  spoons_reset tells that SpoonsGame.start_game has set its counters.
start_game(h, d, st, i, tw, bd, sc, bg, k) ==
  LET n == Len(players)
      same == [ok |-> FALSE, hand |-> h, deck |-> d, state |-> st, idx |-> i,
               tricks_won |-> tw, bids |-> bd, scores |-> sc, bags |-> bg,
               spoons_reset |-> FALSE]
      b == BaseStartGame(h, d, st, i, k)
      based == [same EXCEPT !.ok = b.ok, !.hand = b.hand, !.deck = b.deck,
                            !.state = b.state, !.idx = b.idx]
  IN CASE game = "snap" ->
            IF Len(d) < n * SnapCardsPerPlayer THEN same
            ELSE [same EXCEPT !.ok = TRUE, !.hand = SnapDeal(d),
                              !.deck = DropLast(d, n * SnapCardsPerPlayer),
                              !.state = "playing", !.idx = 0]
       [] game = "spades" ->
            IF n # SpadesRequiredPlayers THEN same
            ELSE [based EXCEPT !.tricks_won = SetKeys(tw, Roster, 0),
                               !.bids = SetKeys(bd, Roster, -1),
                               !.scores = DefaultKeys(sc, Roster, 0),
                               !.bags = SetKeys(bg, Roster \ DOMAIN sc, 0),
                               !.hand = IF b.ok THEN [q \in DOMAIN b.hand |-> SpadesSort(b.hand[q])]
                                        ELSE b.hand]
       [] game = "spoons" ->
            IF n < SpoonsMinPlayers THEN same ELSE [based EXCEPT !.spoons_reset = TRUE]
       [] OTHER -> based

StartGame(k) ==
  /\ lifecycle < MaxLifecycleCalls
  /\ LET r == start_game(hand, deck, state, current_player_idx, tricks_won, bids, scores, bags, k)
     IN /\ hand' = r.hand
        /\ deck' = r.deck
        /\ state' = r.state
        /\ current_player_idx' = r.idx
        /\ tricks_won' = r.tricks_won
        /\ bids' = r.bids
        /\ scores' = r.scores
        /\ bags' = r.bags
        /\ spoons' = IF r.spoons_reset THEN Len(players) - 1 ELSE spoons
        /\ total_spoons' = IF r.spoons_reset THEN Len(players) - 1 ELSE total_spoons
        /\ grabbed_spoons' = IF r.spoons_reset THEN {} ELSE grabbed_spoons
        /\ outcome' = IF r.ok THEN "ok" ELSE "error"
  /\ UNCHANGED <<game, players, score, direction, last_action>>
  /\ UNCHANGED <<snapVars, sets, bluffVars, scatVars, melds, piles>>
  /\ UNCHANGED <<current_trick, spades_broken, loser>>
  /\ LifecycleCalled

\* ------------------------------------------------------------ inputs
\* card_index arguments: -1 is below every hand, the others are positions
CardIndexInputs == (-1)..MaxIndex
ValidIndex(h, i) == i >= 0 /\ i < Len(h)

PosIn(sq, x) == CHOOSE i \in 1..Len(sq) : sq[i] = x
Last(sq) == sq[Len(sq)]

\* The checks every action method opens with: the player is seated, a current
\* player exists (the property neither raises nor is None) and it is p.
MayAct(p) == state = "playing" /\ p \in Roster /\ IsCurrent(p)

\* ------------------------------------------------------------------ Snap
notSnap == <<sets, bluffVars, scatVars, melds, piles, spadesVars, spoonsVars>>

\* players_with_cards of SnapGame.snap, for the hands h
players_with_cards(h) == SelectSeq(players, LAMBDA q : h[q] # <<>>)

\* SnapGame.play_card
SnapPlayCard(p) ==
  /\ budget > 0
  /\ game = "snap"
  /\ IF MayAct(p) /\ hand[p] # <<>>
       THEN /\ hand' = [hand EXCEPT ![p] = DropLast(@, 1)]
            /\ center_pile' = Append(center_pile, Last(hand[p]))
            /\ last_card_time' = "set"
            /\ current_player_idx' = next_turn(current_player_idx)
            /\ last_action' = "card_played"
            /\ Return
            /\ UNCHANGED <<game, players, score, deck, state, direction, last_snap_time, notSnap>>
       ELSE Raise /\ UNCHANGED engine
  /\ Called

\* the penalty of a wrong snap: min(n - 1, len(hand)) cards popped off the
\* caller's hand, the i-th of them appended to the i-th other player's hand
SnapPenaltyCount(p) == IF Len(hand[p]) < Len(players) - 1 THEN Len(hand[p]) ELSE Len(players) - 1
SnapPenaltyHands(p) ==
  LET others == SelectSeq(players, LAMBDA q : q # p)
      cnt == SnapPenaltyCount(p)
  IN [q \in Roster |->
        IF q = p THEN DropLast(hand[p], cnt)
        ELSE IF PosIn(others, q) <= cnt
          THEN Append(hand[q], hand[p][Len(hand[p]) - PosIn(others, q) + 1])
          ELSE hand[q]]

\* the end-of-game test both branches of snap share; h and sc are the hands
\* and scores the branch has produced
SnapGameOver(h, sc) ==
  LET with == players_with_cards(h)
  IN IF Len(with) <= 1
       THEN /\ state' = "game_end"
            /\ score' = IF with # <<>> THEN [sc EXCEPT ![with[1]] = @ + 1] ELSE sc
       ELSE /\ state' = state
            /\ score' = sc

\* SnapGame.snap.  The timestamps are kept as the order of the calls; j picks
\* how many of the latest calls fall inside snap_window, the earliest of them
\* is the winner.
SnapSnap(p, j) ==
  /\ budget > 0
  /\ game = "snap"
  /\ IF state # "playing" \/ Len(center_pile) < 2 \/ p \notin Roster
       THEN Raise /\ UNCHANGED engine
     ELSE LET times == Append(SelectSeq(last_snap_time, LAMBDA q : q # p), p)
              top_card == center_pile[Len(center_pile)]
              second_card == center_pile[Len(center_pile) - 1]
              winner == times[IF j <= Len(times) THEN j ELSE Len(times)]
          IN /\ Return
             /\ UNCHANGED <<game, players, deck, current_player_idx, direction, last_action, notSnap>>
             /\ IF RankOf(top_card) # RankOf(second_card)
                  THEN /\ last_snap_time' = times
                       /\ hand' = SnapPenaltyHands(p)
                       /\ UNCHANGED <<center_pile, last_card_time>>
                       /\ IF hand'[p] = <<>>
                            THEN SnapGameOver(hand', score)
                            ELSE UNCHANGED <<state, score>>
                ELSE IF winner \notin Roster
                  THEN /\ last_snap_time' = times
                       /\ UNCHANGED <<hand, score, state, center_pile, last_card_time>>
                ELSE /\ hand' = [hand EXCEPT ![winner] = @ \o center_pile]
                     /\ center_pile' = <<>>
                     /\ last_snap_time' = <<>>
                     /\ last_card_time' = "none"
                     /\ SnapGameOver(hand', [score EXCEPT ![winner] = @ + Len(center_pile) \div 2])
  /\ Called

\* ---------------------------------------------------------------- Spoons
notSpoons == <<snapVars, sets, bluffVars, scatVars, melds, piles, spadesVars>>

\* SpoonsGame.play_turn.  After the card is popped the method calls
\* self.get_next_player(), which no class defines: the call raises
\* AttributeError there, and nothing after it runs.
SpoonsPlayTurn(p, i) ==
  /\ budget > 0
  /\ game = "spoons"
  /\ IF MayAct(p) /\ ValidIndex(hand[p], i)
       THEN /\ hand' = [hand EXCEPT ![p] = RemoveAt(@, i + 1)]
            /\ Raise
            /\ UNCHANGED <<game, players, score, deck, state, current_player_idx,
                           direction, last_action, variantVars>>
       ELSE Raise /\ UNCHANGED engine
  /\ Called

\* SpoonsGame.grab_spoon
SpoonsGrabSpoon(p) ==
  /\ budget > 0
  /\ game = "spoons"
  /\ IF state # "playing" \/ p \notin Roster \/ spoons <= 0 \/ p \in grabbed_spoons
       THEN Raise /\ UNCHANGED engine
     ELSE LET without == SelectSeq(players, LAMBDA q : q \notin grabbed_spoons \cup {p})
          IN /\ grabbed_spoons' = grabbed_spoons \cup {p}
             /\ spoons' = spoons - 1
             /\ state' = IF spoons - 1 = 0 THEN "game_end" ELSE state
             /\ loser' = IF spoons - 1 = 0 /\ without # <<>> THEN without[1] ELSE loser
             /\ last_action' = "grab_spoon"
             /\ Return
             /\ UNCHANGED <<game, players, hand, score, deck, current_player_idx, direction,
                            total_spoons, notSpoons>>
  /\ Called


\* --------------------------------------------------------------- Go Fish
notGoFish == <<snapVars, bluffVars, scatVars, melds, piles, spadesVars, spoonsVars>>

\* card.rank == rank in GoFishGame.ask_for_cards: card.rank is a member of the
\* Rank enum and rank is the str argument of the call (main.game_action hands
\* on action_data["rank"]); a Rank member never equals a str.
RankEqualsStr(c, rank) == FALSE

\* GoFishGame._check_game_end
GoFishGameEnd(h, d) == SumLen(h, DOMAIN h) + Len(d) = 0

\* GoFishGame.get_game_state raises when BaseGame.get_game_state has fallen
\* back to the view without players and the viewer is seated.
GoFishViewRaises(for_player_id, idx) ==
  /\ players # <<>>
  /\ idx >= Len(players)
  /\ for_player_id \in Roster

\* the ranks of which h holds exactly four cards (GoFishGame._check_for_sets)
FourOfAKindRanks(h) ==
  {r \in 0..(NumRanks - 1) : Cardinality({i \in 1..Len(h) : RankOf(h[i]) = r}) = 4}

\* GoFishGame.ask_for_cards(asking_player_id, target_player_id, rank)
GoFishAskForCards(asker, target, rank) ==
  /\ budget > 0
  /\ game = "go_fish"
  /\ IF ~(state = "playing" /\ asker \in Roster /\ target \in Roster
          /\ IsCurrent(asker) /\ asker # target)
       THEN Raise /\ UNCHANGED engine
     ELSE LET has_rank == \E i \in 1..Len(hand[asker]) : RankEqualsStr(hand[asker][i], rank)
              matching == SelectSeq(hand[target], LAMBDA c : RankEqualsStr(c, rank))
              drew == deck # <<>>
              drawn_card == deck[Len(deck)]
              fished == [hand EXCEPT ![asker] = Append(@, drawn_card)]
              taken == [hand EXCEPT ![target] = SelectSeq(@, LAMBDA c : ~RankEqualsStr(c, rank)),
                                    ![asker] = @ \o matching]
              four == FourOfAKindRanks(taken[asker])
              scored == [taken EXCEPT ![asker] = SelectSeq(@, LAMBDA c : RankOf(c) \notin four)]
          IN /\ UNCHANGED <<game, players, direction, notGoFish>>
             /\ IF ~has_rank
                  THEN \* the asker holds no card of the rank: draw, turn passes
                       /\ hand' = IF drew THEN fished ELSE hand
                       /\ deck' = IF drew THEN DropLast(deck, 1) ELSE deck
                       /\ last_action' = IF drew THEN "go_fish" ELSE "no_cards"
                       /\ current_player_idx' = next_turn(current_player_idx)
                       /\ UNCHANGED <<score, state, sets>>
                       /\ outcome' = IF GoFishViewRaises(asker, current_player_idx')
                                       THEN "error" ELSE "ok"
                ELSE IF matching # <<>>
                  THEN \* transfer, then _check_for_sets: the hand and the score
                       \* change before self.sets[asker] is read (KeyError
                       \* when start_game never created the key)
                       /\ hand' = scored
                       /\ score' = [score EXCEPT ![asker] = @ + Cardinality(four)]
                       /\ UNCHANGED <<deck, current_player_idx>>
                       /\ IF four # {} /\ asker \notin DOMAIN sets
                            THEN Raise /\ UNCHANGED <<sets, last_action, state>>
                            ELSE /\ sets' = IF four = {} THEN sets
                                            ELSE [sets EXCEPT ![asker] =
                                                    @ \o [r \in 1..Cardinality(four) |->
                                                            SelectSeq(taken[asker], LAMBDA c :
                                                              RankOf(c) = CHOOSE x \in four :
                                                                Cardinality({y \in four : y < x}) = r - 1)]]
                                 /\ last_action' = "cards_received"
                                 /\ state' = IF GoFishGameEnd(hand', deck') THEN "game_end" ELSE state
                                 /\ outcome' = IF GoFishViewRaises(asker, current_player_idx')
                                                 THEN "error" ELSE "ok"
                ELSE \* go fish: the turn stays only when the drawn card matches
                     /\ hand' = IF drew THEN fished ELSE hand
                     /\ deck' = IF drew THEN DropLast(deck, 1) ELSE deck
                     /\ last_action' = IF ~drew THEN "no_cards"
                                       ELSE IF RankEqualsStr(drawn_card, rank) THEN "successful_fish"
                                       ELSE "go_fish"
                     /\ current_player_idx' = IF drew /\ RankEqualsStr(drawn_card, rank)
                                                THEN current_player_idx
                                                ELSE next_turn(current_player_idx)
                     /\ UNCHANGED <<score, sets>>
                     /\ state' = IF GoFishGameEnd(hand', deck') THEN "game_end" ELSE state
                     /\ outcome' = IF GoFishViewRaises(asker, current_player_idx')
                                     THEN "error" ELSE "ok"
  /\ Called

\* ----------------------------------------------------------------- Bluff
notBluff == <<snapVars, sets, scatVars, melds, piles, spadesVars, spoonsVars>>

\* the sort key of BluffGame.challenge: (rank.value, suit.value), both str;
\* the rank names order as 10 < 2 < ... < 9 < A < J < K < Q
RankNameOrder(r) ==
  CASE r = 9 -> 0
    [] r \in 1..8 -> r
    [] r = ACE -> 9
    [] r = JACK -> 10
    [] r = KING -> 11
    [] OTHER -> 12
BluffSortKey(c) == RankNameOrder(RankOf(c)) * 4 + SuitNameOrder(SuitOf(c))

\* list.sort(key): the cards of h by ascending key.  Cards with equal keys
\* are the same card, so the result is, key by key, the copies h holds.
Copies(h, c) == Cardinality({i \in 1..Len(h) : h[i] = c})
RECURSIVE SortedFrom(_, _, _)
SortedFrom(h, byKey, k) ==
  IF k >= DeckSize THEN <<>>
  ELSE [i \in 1..Copies(h, byKey[k]) |-> byKey[k]] \o SortedFrom(h, byKey, k + 1)
BluffByKey == [k \in 0..(DeckSize - 1) |-> CHOOSE c \in Cards : BluffSortKey(c) = k]
BluffSort(h) == SortedFrom(h, BluffByKey, 0)

\* claimed_rank arguments: -1 is a string that names no rank
ClaimInputs == (-1)..MaxIndex

\* BluffGame.play_cards(player_id, card_indices, claimed_rank)
BluffPlayCards(p, card_indices, claimed_rank) ==
  /\ budget > 0
  /\ game = "bluff"
  /\ IF ~(/\ MayAct(p)
          /\ card_indices # <<>>
          /\ Len(card_indices) = cards_per_play
          /\ \A x \in 1..Len(card_indices) : ValidIndex(hand[p], card_indices[x])
          /\ claimed_rank \in 0..(NumRanks - 1)
          /\ (current_rank # -1 => claimed_rank = current_rank))
       THEN Raise /\ UNCHANGED engine
     ELSE LET idxs == SortSeq(card_indices, LAMBDA a, b : a > b)
              cards == [x \in 1..Len(idxs) |-> hand[p][idxs[x] + 1]]
              rest == SelectSeq([x \in 1..Len(hand[p]) |-> x],
                                LAMBDA x : (x - 1) \notin SeqToSet(card_indices))
              left == [x \in 1..Len(rest) |-> hand[p][rest[x]]]
          IN /\ hand' = [hand EXCEPT ![p] = left]
             /\ bluff_pile' = Append(bluff_pile, [cards |-> cards, rank |-> claimed_rank])
             /\ current_player_idx' = next_turn(current_player_idx)
             /\ current_rank' = (claimed_rank + 1) % NumRanks
             /\ state' = IF left = <<>> THEN "game_end" ELSE state
             /\ score' = IF left = <<>> THEN [score EXCEPT ![p] = @ + 1] ELSE score
             /\ last_action' = "cards_played"
             /\ last_play_by' = p
             /\ Return
             /\ UNCHANGED <<game, players, deck, direction, cards_per_play, notBluff>>
  /\ Called

\* BluffGame.challenge(challenger_id)
BluffChallenge(c) ==
  /\ budget > 0
  /\ game = "bluff"
  /\ IF state # "playing" \/ bluff_pile = <<>> \/ c \notin Roster
       THEN Raise /\ UNCHANGED engine
     ELSE LET last_play == bluff_pile[Len(bluff_pile)]
              last_player == players[((current_player_idx - 1) % Len(players)) + 1]
              was_bluffing == \E x \in 1..Len(last_play.cards) :
                                 RankOf(last_play.cards[x]) # last_play.rank
              all_cards == Flatten([x \in 1..Len(bluff_pile) |-> bluff_pile[x].cards])
              taker == IF was_bluffing THEN last_player ELSE c
              scorer == IF was_bluffing THEN c ELSE last_player
              h == [hand EXCEPT ![taker] = BluffSort(@ \o all_cards)]
              sc1 == [score EXCEPT ![scorer] = @ + 1]
              over == h[last_player] = <<>> \/ h[c] = <<>>
              sc2 == IF over /\ h[last_player] = <<>>
                       THEN [sc1 EXCEPT ![last_player] = @ + 1] ELSE sc1
              sc3 == IF over /\ h[c] = <<>> THEN [sc2 EXCEPT ![c] = @ + 1] ELSE sc2
          IN /\ hand' = h
             /\ bluff_pile' = <<>>
             /\ score' = sc3
             /\ current_rank' = -1
             /\ cards_per_play' = 1
             /\ state' = IF over THEN "game_end" ELSE state
             /\ last_action' = IF was_bluffing THEN "challenge_success" ELSE "challenge_failed"
             /\ Return
             /\ UNCHANGED <<game, players, deck, current_player_idx, direction, last_play_by,
                            notBluff>>
  /\ Called

\* ---------------------------------------------------------- Kings Corner
notKingsCorner == <<snapVars, sets, bluffVars, scatVars, melds, spadesVars, spoonsVars>>

\* pile ids: 0..3 are foundation_0..3, 4..7 are corner_0..3
PileIds == 0..(2 * KingsCornerFoundations - 1)
IsCorner(pile_id) == pile_id >= KingsCornerFoundations

\* KingsCornerGame._is_card_black
is_card_black(c) == SuitOf(c) \in {CLUBS, SPADES}

\* KingsCornerGame._can_place_on_pile
can_place_on_pile(c, pile_id) ==
  IF piles[pile_id] = <<>>
    THEN (IsCorner(pile_id) => RankOf(c) = KING)
    ELSE LET top_card == piles[pile_id][Len(piles[pile_id])]
         IN /\ RankOf(c) = RankOf(top_card) - 1
            /\ is_card_black(c) # is_card_black(top_card)

\* KingsCornerGame._can_move_pile
can_move_pile(source_id, target_id) ==
  /\ piles[source_id] # <<>>
  /\ can_place_on_pile(piles[source_id][1], target_id)

\* KingsCornerGame.play_card(player_id, card_index, pile_id)
KingsCornerPlayCard(p, i, pile_id) ==
  /\ budget > 0
  /\ game = "kings_corner"
  /\ IF ~(/\ MayAct(p)
          /\ ValidIndex(hand[p], i)
          /\ pile_id \in DOMAIN piles
          /\ can_place_on_pile(hand[p][i + 1], pile_id))
       THEN Raise /\ UNCHANGED engine
     ELSE /\ hand' = [hand EXCEPT ![p] = RemoveAt(@, i + 1)]
          /\ piles' = [piles EXCEPT ![pile_id] = Append(@, hand[p][i + 1])]
          /\ state' = IF hand'[p] = <<>> THEN "game_end" ELSE state
          /\ score' = IF hand'[p] = <<>> THEN [score EXCEPT ![p] = @ + 1] ELSE score
          /\ last_action' = "card_played"
          /\ Return
          /\ UNCHANGED <<game, players, deck, current_player_idx, direction, notKingsCorner>>
  /\ Called

\* KingsCornerGame.move_pile(player_id, source_pile_id, target_pile_id)
KingsCornerMovePile(p, source_id, target_id) ==
  /\ budget > 0
  /\ game = "kings_corner"
  /\ IF ~(/\ MayAct(p)
          /\ source_id \in DOMAIN piles
          /\ target_id \in DOMAIN piles
          /\ can_move_pile(source_id, target_id))
       THEN Raise /\ UNCHANGED engine
     ELSE /\ piles' = [q \in DOMAIN piles |->
                         IF q = source_id THEN <<>>
                         ELSE IF q = target_id THEN piles[target_id] \o piles[source_id]
                         ELSE piles[q]]
          /\ last_action' = "pile_moved"
          /\ Return
          /\ UNCHANGED <<game, players, hand, score, deck, state, current_player_idx,
                         direction, notKingsCorner>>
  /\ Called

\* KingsCornerGame.draw_card(player_id)
KingsCornerDrawCard(p) ==
  /\ budget > 0
  /\ game = "kings_corner"
  /\ IF ~(MayAct(p) /\ deck # <<>>)
       THEN Raise /\ UNCHANGED engine
     ELSE /\ hand' = [hand EXCEPT ![p] = Append(@, deck[Len(deck)])]
          /\ deck' = DropLast(deck, 1)
          /\ current_player_idx' = next_turn(current_player_idx)
          /\ last_action' = "card_drawn"
          /\ Return
          /\ UNCHANGED <<game, players, score, state, direction, variantVars>>
  /\ Called

\* KingsCornerGame.end_turn(player_id)
KingsCornerEndTurn(p) ==
  /\ budget > 0
  /\ game = "kings_corner"
  /\ IF ~MayAct(p)
       THEN Raise /\ UNCHANGED engine
     ELSE /\ current_player_idx' = next_turn(current_player_idx)
          /\ last_action' = "turn_ended"
          /\ Return
          /\ UNCHANGED <<game, players, hand, score, deck, state, direction, variantVars>>
  /\ Called


\* ------------------------------------------------------------------ Scat
notScat == <<snapVars, sets, bluffVars, melds, piles, spadesVars, spoonsVars>>

RECURSIVE SumValues(_)
SumValues(cards) == IF cards = <<>> THEN 0 ELSE CardValue(Head(cards)) + SumValues(Tail(cards))

\* ScatGame._calculate_hand_value: the best single-suit sum, capped
\* a hand value that adds up every card of the hand, whatever its suit
SumOfAllSuits(h) == Min(SumValues(h), ScatMaxHandValue)

calculate_hand_value(h) ==
  LET suit_sum(s) == SumValues(SelectSeq(h, LAMBDA c : SuitOf(c) = s))
      best == CHOOSE v \in {suit_sum(s) : s \in HEARTS..SPADES} :
                \A s \in HEARTS..SPADES : suit_sum(s) <= v
  IN Min(best, ScatMaxHandValue)

\* a draw that turns the whole discard pile, its top card included, into the deck
DeckDrawWholePile(d, dp, k) ==
  IF d # <<>>
    THEN [ok |-> TRUE, card |-> Last(d), deck |-> DropLast(d, 1), discard |-> dp]
  ELSE IF Len(dp) > 1
    THEN LET nd == Shuffle(dp, k)
         IN [ok |-> TRUE, card |-> Last(nd), deck |-> DropLast(nd, 1), discard |-> <<>>]
  ELSE [ok |-> FALSE, card |-> 0, deck |-> d, discard |-> dp]

\* the deck draw of ScatGame.draw_card and RummyGame.draw_card: the top card,
\* or, on an empty deck, the discard pile below its top card reshuffled (k)
\* into the deck; ok is FALSE when no card can be drawn.
DeckDraw(d, dp, k) ==
  IF d # <<>>
    THEN [ok |-> TRUE, card |-> Last(d), deck |-> DropLast(d, 1), discard |-> dp]
  ELSE IF Len(dp) > 1
    THEN LET nd == Shuffle(DropLast(dp, 1), k)
         IN [ok |-> TRUE, card |-> Last(nd), deck |-> DropLast(nd, 1), discard |-> <<Last(dp)>>]
  ELSE [ok |-> FALSE, card |-> 0, deck |-> d, discard |-> dp]

\* ScatGame.draw_card(player_id, from_discard)
ScatDrawCard(p, from_discard) ==
  /\ budget > 0
  /\ game = "scat"
  /\ IF ~(MayAct(p) /\ Len(hand[p]) <= ScatHandSize)
       THEN Raise /\ UNCHANGED engine
     ELSE IF from_discard
       THEN IF discard_pile = <<>>
              THEN Raise /\ UNCHANGED engine
              ELSE /\ hand' = [hand EXCEPT ![p] = Append(@, Last(discard_pile))]
                   /\ discard_pile' = DropLast(discard_pile, 1)
                   /\ last_action' = "card_drawn"
                   /\ Return
                   /\ UNCHANGED <<game, players, score, deck, state, current_player_idx, direction,
                                  knocked_player_id, final_round, lives, notScat>>
     ELSE \E k \in IF deck = <<>> THEN 1..NumShuffles ELSE {1} :
            LET dr == DeckDraw(deck, discard_pile, k)
            IN IF ~dr.ok
                 THEN Raise /\ UNCHANGED engine
                 ELSE /\ hand' = [hand EXCEPT ![p] = Append(@, dr.card)]
                      /\ deck' = dr.deck
                      /\ discard_pile' = dr.discard
                      /\ last_action' = "card_drawn"
                      /\ Return
                      /\ UNCHANGED <<game, players, score, state, current_player_idx, direction,
                                     knocked_player_id, final_round, lives, notScat>>
  /\ Called

\* ScatGame.knock(player_id)
ScatKnock(p) ==
  /\ budget > 0
  /\ game = "scat"
  /\ IF ~(MayAct(p) /\ ~final_round /\ Len(hand[p]) = ScatHandSize)
       THEN Raise /\ UNCHANGED engine
     ELSE /\ knocked_player_id' = p
          /\ final_round' = TRUE
          /\ last_action' = "player_knocked"
          /\ current_player_idx' = next_turn(current_player_idx)
          /\ Return
          /\ UNCHANGED <<game, players, hand, score, deck, state, direction,
                         discard_pile, lives, notScat>>
  /\ Called

\* The loop of ScatGame._end_round over the losers: lives[loser] is read before
\* it is written, a loser without an entry raises KeyError and the losers
\* before it keep their deduction.
RECURSIVE DeductLives(_, _)
DeductLives(lv, losers) ==
  IF losers = <<>> THEN [ok |-> TRUE, lives |-> lv]
  ELSE IF Head(losers) \notin DOMAIN lv THEN [ok |-> FALSE, lives |-> lv]
  ELSE DeductLives([lv EXCEPT ![Head(losers)] = Max(0, @ - 1)], Tail(losers))

\* ScatGame.deal_initial_cards on the deck d: three cards per player by
\* draw_multiple, one card for the discard pile, every player's lives set.
ScatDeal(d) ==
  [hand |-> [q \in Roster |->
               [j \in 1..ScatHandSize |-> d[Len(d) - ((IndexOf(q) - 1) * ScatHandSize + j) + 1]]],
   discard |-> <<d[Len(d) - Len(players) * ScatHandSize]>>,
   deck |-> DropLast(d, Len(players) * ScatHandSize + 1),
   lives |-> SetKeys(lives, Roster, ScatInitialLives)]

\* ScatGame._end_round on the hands h and discard pile dp the discard has left;
\* k is the shuffle of the collected deck.  The result is every attribute the
\* method writes, and whether it returned.
ScatEndRound(h, dp, k) ==
  LET value == [q \in Roster |-> calculate_hand_value(h[q])]
      min_score == CHOOSE v \in {value[q] : q \in Roster} : \A q \in Roster : v <= value[q]
      losers == SelectSeq(players, LAMBDA q : value[q] = min_score)
      ded == DeductLives(lives, losers)
      alive == {q \in DOMAIN ded.lives : ded.lives[q] > 0}
      \* next(pid for pid, lives in self.lives.items() if lives > 0), taken when
      \* at most one player has lives left
      winner == CHOOSE q \in alive : TRUE
      collected == Shuffle(deck \o Flatten([x \in 1..Len(players) |-> h[players[x]]]) \o dp, k)
      cleared == [q \in Roster |-> <<>>]
      dealt == ScatDeal(collected)
      same == [ok |-> FALSE, hand |-> h, deck |-> deck, discard |-> dp, lives |-> ded.lives,
               state |-> state, score |-> score, final_round |-> final_round,
               knocked |-> knocked_player_id, idx |-> current_player_idx,
               last_action |-> "card_discarded"]
  IN IF ~ded.ok THEN same
     ELSE IF Cardinality(alive) <= 1
       THEN IF alive = {} \/ winner \notin Roster
              THEN [same EXCEPT !.state = "game_end"]
              ELSE [same EXCEPT !.ok = TRUE, !.state = "game_end",
                                !.score = [score EXCEPT ![winner] = @ + 1],
                                !.last_action = "round_end"]
     ELSE IF Len(collected) < Len(players) * ScatHandSize + 1
       THEN [same EXCEPT !.state = "round_end", !.final_round = FALSE, !.knocked = NoPlayer,
                         !.hand = cleared, !.deck = collected, !.discard = <<>>]
     ELSE [ok |-> TRUE, hand |-> dealt.hand, deck |-> dealt.deck, discard |-> dealt.discard,
           lives |-> dealt.lives, state |-> "playing", score |-> score, final_round |-> FALSE,
           knocked |-> NoPlayer, idx |-> 0, last_action |-> "round_end"]

\* ScatGame.discard_card(player_id, card_index)
ScatDiscardCard(p, i) ==
  /\ budget > 0
  /\ game = "scat"
  /\ IF ~(MayAct(p) /\ ValidIndex(hand[p], i))
       THEN Raise /\ UNCHANGED engine
     ELSE LET h == [hand EXCEPT ![p] = RemoveAt(@, i + 1)]
              dp == Append(discard_pile, hand[p][i + 1])
          IN IF final_round /\ p = knocked_player_id
               THEN \E k \in 1..NumShuffles :
                      LET r == ScatEndRound(h, dp, k)
                      IN /\ hand' = r.hand
                         /\ deck' = r.deck
                         /\ discard_pile' = r.discard
                         /\ lives' = r.lives
                         /\ state' = r.state
                         /\ score' = r.score
                         /\ final_round' = r.final_round
                         /\ knocked_player_id' = r.knocked
                         /\ current_player_idx' = r.idx
                         /\ last_action' = r.last_action
                         /\ outcome' = IF r.ok THEN "ok" ELSE "error"
                         /\ UNCHANGED <<game, players, direction, notScat>>
               ELSE /\ hand' = h
                    /\ discard_pile' = dp
                    /\ last_action' = "card_discarded"
                    /\ current_player_idx' = next_turn(current_player_idx)
                    /\ Return
                    /\ UNCHANGED <<game, players, score, deck, state, direction,
                                   knocked_player_id, final_round, lives, notScat>>
  /\ Called

\* ---------------------------------------------------------------- Spades
notSpades == <<snapVars, sets, bluffVars, scatVars, melds, piles, spoonsVars>>

\* SpadesGame.make_bid(player_id, bid)
SpadesMakeBid(p, bid) ==
  /\ budget > 0
  /\ game = "spades"
  /\ IF ~(state = "starting" /\ p \in Roster /\ IsCurrent(p) /\ bid >= 0 /\ bid <= SpadesHandSize)
       THEN Raise /\ UNCHANGED engine
     ELSE /\ bids' = SetKeys(bids, {p}, bid)
          /\ last_action' = "bid_made"
          /\ current_player_idx' = next_turn(current_player_idx)
          /\ state' = IF \A q \in DOMAIN bids' : bids'[q] >= 0 THEN "playing" ELSE state
          /\ Return
          /\ UNCHANGED <<game, players, hand, score, deck, direction, current_trick, tricks_won,
                         scores, bags, spades_broken, notSpades>>
  /\ Called

\* SpadesGame._get_trick_winner: the scan over the trick from its second
\* entry, best being the position of the highest card so far
RECURSIVE TrickWinnerFrom(_, _, _)
TrickWinnerFrom(trick, x, best) ==
  IF x > Len(trick) THEN trick[best].pid
  ELSE LET card == trick[x].card
           highest_card == trick[best].card
           beats ==
             IF SuitOf(card) = SPADES \/ SuitOf(highest_card) = SPADES
               THEN \/ SuitOf(card) = SPADES /\ SuitOf(highest_card) # SPADES
                    \/ /\ SuitOf(card) = SPADES /\ SuitOf(highest_card) = SPADES
                       /\ RankOf(card) > RankOf(highest_card)
               ELSE SuitOf(card) = SuitOf(highest_card) /\ RankOf(card) > RankOf(highest_card)
       IN TrickWinnerFrom(trick, x + 1, IF beats THEN x ELSE best)
\* a trick that always goes to the player who led it
TrickToLeader(trick) == trick[1].pid

get_trick_winner(trick) == TrickWinnerFrom(trick, 2, 1)

\* the validation of SpadesGame.play_card for the card c of the hand h
SpadesLegal(h, c) ==
  IF current_trick # <<>>
    THEN LET leading_suit == SuitOf(current_trick[1].card)
         IN SuitOf(c) = leading_suit \/ \A x \in 1..Len(h) : SuitOf(h[x]) # leading_suit
    ELSE ~(/\ SuitOf(c) = SPADES
           /\ ~spades_broken
           /\ \E x \in 1..Len(h) : SuitOf(h[x]) # SPADES)

\* a scoring of the hand that knows no bag penalty
ScoreHandWithoutBagPenalty(h, tw, idx, broken, k) ==
  LET made(q) == tw[q] >= bids[q]
      overtricks(q) == tw[q] - bids[q]
      penalty(q) == FALSE
      round_score(q) ==
        IF made(q) THEN bids[q] * 10 + overtricks(q) - (IF penalty(q) THEN 100 ELSE 0)
        ELSE -bids[q] * 10
      new_bags == [q \in DOMAIN bags |->
                     IF q \in DOMAIN bids /\ made(q)
                       THEN bags[q] + overtricks(q) - (IF penalty(q) THEN 10 ELSE 0)
                       ELSE bags[q]]
      new_scores == [q \in DOMAIN scores |->
                       IF q \in DOMAIN bids THEN scores[q] + round_score(q) ELSE scores[q]]
      b == BaseStartGame(h, deck, "round_end", idx, k)
      scored == [ok |-> FALSE, state |-> "round_end", hand |-> h, deck |-> deck, idx |-> idx,
                 tricks_won |-> tw, bids |-> bids, spades_broken |-> broken,
                 scores |-> new_scores, bags |-> new_bags, last_action |-> "card_played"]
  IN IF \E q \in DOMAIN new_scores : new_scores[q] >= SpadesTargetScore
       THEN [scored EXCEPT !.ok = TRUE, !.state = "game_end", !.last_action = "game_end"]
     ELSE LET reset == [scored EXCEPT !.tricks_won = [q \in Roster |-> 0],
                                      !.bids = [q \in Roster |-> -1],
                                      !.spades_broken = FALSE,
                                      !.deck = b.deck, !.hand = b.hand, !.idx = b.idx]
          IN IF Len(players) < BaseMinPlayers THEN [reset EXCEPT !.deck = create_deck(k)]
             ELSE IF ~b.ok THEN [reset EXCEPT !.state = "waiting"]
             ELSE [reset EXCEPT !.ok = TRUE, !.state = "starting", !.last_action = "hand_scored"]

\* SpadesGame._score_hand with the hands h, the tricks tw, the turn index idx
\* and the spades_broken flag the play has left; k is the shuffle of the next
\* deal.  The result is every attribute the method writes, and whether it
\* returned.
SpadesScoreHand(h, tw, idx, broken, k) ==
  LET made(q) == tw[q] >= bids[q]
      overtricks(q) == tw[q] - bids[q]
      penalty(q) == made(q) /\ bags[q] + overtricks(q) >= 10
      round_score(q) ==
        IF made(q) THEN bids[q] * 10 + overtricks(q) - (IF penalty(q) THEN 100 ELSE 0)
        ELSE -bids[q] * 10
      new_bags == [q \in DOMAIN bags |->
                     IF q \in DOMAIN bids /\ made(q)
                       THEN bags[q] + overtricks(q) - (IF penalty(q) THEN 10 ELSE 0)
                       ELSE bags[q]]
      new_scores == [q \in DOMAIN scores |->
                       IF q \in DOMAIN bids THEN scores[q] + round_score(q) ELSE scores[q]]
      b == BaseStartGame(h, deck, "round_end", idx, k)
      scored == [ok |-> FALSE, state |-> "round_end", hand |-> h, deck |-> deck, idx |-> idx,
                 tricks_won |-> tw, bids |-> bids, spades_broken |-> broken,
                 scores |-> new_scores, bags |-> new_bags, last_action |-> "card_played"]
  IN IF \E q \in DOMAIN new_scores : new_scores[q] >= SpadesTargetScore
       THEN [scored EXCEPT !.ok = TRUE, !.state = "game_end", !.last_action = "game_end"]
     ELSE LET reset == [scored EXCEPT !.tricks_won = [q \in Roster |-> 0],
                                      !.bids = [q \in Roster |-> -1],
                                      !.spades_broken = FALSE,
                                      !.deck = b.deck, !.hand = b.hand, !.idx = b.idx]
          IN IF Len(players) < BaseMinPlayers THEN [reset EXCEPT !.deck = create_deck(k)]
             ELSE IF ~b.ok THEN [reset EXCEPT !.state = "waiting"]
             ELSE [reset EXCEPT !.ok = TRUE, !.state = "starting", !.last_action = "hand_scored"]

\* SpadesGame.play_card(player_id, card_index)
SpadesPlayCard(p, i) ==
  /\ budget > 0
  /\ game = "spades"
  /\ IF ~(MayAct(p) /\ ValidIndex(hand[p], i) /\ SpadesLegal(hand[p], hand[p][i + 1]))
       THEN Raise /\ UNCHANGED engine
     ELSE LET card == hand[p][i + 1]
              h == [hand EXCEPT ![p] = RemoveAt(@, i + 1)]
              trick == Append(current_trick, [pid |-> p, card |-> card])
              winner_id == get_trick_winner(trick)
              tw == [tricks_won EXCEPT ![winner_id] = @ + 1]
          IN /\ UNCHANGED <<game, players, score, direction, notSpades>>
             /\ IF Len(trick) # Len(players)
                  THEN /\ hand' = h
                       /\ current_trick' = trick
                       /\ spades_broken' = (spades_broken \/ SuitOf(card) = SPADES)
                       /\ last_action' = "card_played"
                       /\ current_player_idx' = next_turn(current_player_idx)
                       /\ Return
                       /\ UNCHANGED <<deck, state, tricks_won, bids, scores, bags>>
                ELSE IF winner_id \notin DOMAIN tricks_won \/ winner_id \notin Roster
                  THEN \* KeyError on tricks_won with the trick still in place, or
                       \* ValueError of list.index once the trick has been cleared
                       /\ hand' = h
                       /\ current_trick' = IF winner_id \in DOMAIN tricks_won THEN <<>> ELSE trick
                       /\ spades_broken' = (spades_broken \/ SuitOf(card) = SPADES)
                       /\ last_action' = "card_played"
                       /\ tricks_won' = IF winner_id \in DOMAIN tricks_won THEN tw ELSE tricks_won
                       /\ Raise
                       /\ UNCHANGED <<deck, state, current_player_idx, bids, scores, bags>>
                ELSE IF \E q \in Roster : h[q] # <<>>
                  THEN /\ hand' = h
                       /\ current_trick' = <<>>
                       /\ spades_broken' = (spades_broken \/ SuitOf(card) = SPADES)
                       /\ last_action' = "card_played"
                       /\ tricks_won' = tw
                       /\ current_player_idx' = IndexOf(winner_id) - 1
                       /\ Return
                       /\ UNCHANGED <<deck, state, bids, scores, bags>>
                ELSE \E k \in 1..NumShuffles :
                       LET r == SpadesScoreHand(h, tw, IndexOf(winner_id) - 1,
                                                (spades_broken \/ SuitOf(card) = SPADES), k)
                       IN /\ hand' = r.hand
                          /\ deck' = r.deck
                          /\ state' = r.state
                          /\ current_player_idx' = r.idx
                          /\ current_trick' = <<>>
                          /\ tricks_won' = r.tricks_won
                          /\ bids' = r.bids
                          /\ scores' = r.scores
                          /\ bags' = r.bags
                          /\ spades_broken' = r.spades_broken
                          /\ last_action' = r.last_action
                          /\ outcome' = IF r.ok THEN "ok" ELSE "error"
  /\ Called

\* ----------------------------------------------------------------- Rummy
notRummy == <<snapVars, sets, bluffVars, knocked_player_id, final_round, lives, piles,
              spadesVars, spoonsVars>>

\* sorted(cards, key=lambda c: c.value): a stable sort, cards of equal value
\* keep the order they came in
RECURSIVE InsertByValue(_, _)
InsertByValue(sorted, c) ==
  IF sorted = <<>> THEN <<c>>
  ELSE IF CardValue(Last(sorted)) <= CardValue(c) THEN Append(sorted, c)
  ELSE Append(InsertByValue(DropLast(sorted, 1), c), Last(sorted))
RECURSIVE SortByValue(_)
SortByValue(cards) ==
  IF cards = <<>> THEN <<>> ELSE InsertByValue(SortByValue(DropLast(cards, 1)), Last(cards))

\* RummyGame._is_valid_run
is_valid_run(cards) ==
  /\ Len(cards) >= 3
  /\ LET sorted_cards == SortByValue(cards)
     IN /\ \A x \in 1..Len(sorted_cards) : SuitOf(sorted_cards[x]) = SuitOf(sorted_cards[1])
        /\ \A x \in 1..(Len(sorted_cards) - 1) :
              RankOf(sorted_cards[x + 1]) = RankOf(sorted_cards[x]) + 1

\* RummyGame._is_valid_set
is_valid_set(cards) ==
  /\ Len(cards) >= 3
  /\ \A x \in 1..Len(cards) : RankOf(cards[x]) = RankOf(cards[1])
  /\ Cardinality({SuitOf(cards[x]) : x \in 1..Len(cards)}) = Len(cards)

\* RummyGame.draw_card(player_id, from_discard)
RummyDrawCard(p, from_discard) ==
  /\ budget > 0
  /\ game = "rummy"
  /\ IF ~MayAct(p)
       THEN Raise /\ UNCHANGED engine
     ELSE IF from_discard
       THEN IF discard_pile = <<>>
              THEN Raise /\ UNCHANGED engine
              ELSE /\ hand' = [hand EXCEPT ![p] = Append(@, Last(discard_pile))]
                   /\ discard_pile' = DropLast(discard_pile, 1)
                   /\ last_action' = "card_drawn"
                   /\ Return
                   /\ UNCHANGED <<game, players, score, deck, state, current_player_idx, direction,
                                  melds, notRummy>>
     ELSE \E k \in IF deck = <<>> THEN 1..NumShuffles ELSE {1} :
            LET dr == DeckDraw(deck, discard_pile, k)
            IN IF ~dr.ok
                 THEN Raise /\ UNCHANGED engine
                 ELSE /\ hand' = [hand EXCEPT ![p] = Append(@, dr.card)]
                      /\ deck' = dr.deck
                      /\ discard_pile' = dr.discard
                      /\ last_action' = "card_drawn"
                      /\ Return
                      /\ UNCHANGED <<game, players, score, state, current_player_idx, direction,
                                     melds, notRummy>>
  /\ Called

\* RummyGame.discard_card(player_id, card_index)
RummyDiscardCard(p, i) ==
  /\ budget > 0
  /\ game = "rummy"
  /\ IF ~(MayAct(p) /\ ValidIndex(hand[p], i))
       THEN Raise /\ UNCHANGED engine
     ELSE /\ hand' = [hand EXCEPT ![p] = RemoveAt(@, i + 1)]
          /\ discard_pile' = Append(discard_pile, hand[p][i + 1])
          /\ last_action' = "card_discarded"
          /\ current_player_idx' = next_turn(current_player_idx)
          /\ Return
          /\ UNCHANGED <<game, players, score, deck, state, direction, melds, notRummy>>
  /\ Called

\* card_indices arguments of lay_meld: the first three cards of a hand, the
\* three cards drawn after the deal, and a selection that is too short
MeldSelections ==
  {<<0, 1, 2>>,
   <<DefaultCardsPerPlayer, DefaultCardsPerPlayer + 1, DefaultCardsPerPlayer + 2>>,
   <<0, 1>>}

\* RummyGame.lay_meld(player_id, card_indices); card_indices is ascending
RummyLayMeld(p, card_indices) ==
  /\ budget > 0
  /\ game = "rummy"
  /\ LET cards == [x \in 1..Len(card_indices) |-> hand[p][card_indices[x] + 1]]
         rest == SelectSeq([x \in 1..Len(hand[p]) |-> x],
                           LAMBDA x : (x - 1) \notin SeqToSet(card_indices))
         left == [x \in 1..Len(rest) |-> hand[p][rest[x]]]
     IN IF ~(/\ MayAct(p)
             /\ Len(card_indices) >= 3
             /\ \A x \in 1..Len(card_indices) : ValidIndex(hand[p], card_indices[x])
             /\ (is_valid_run(cards) \/ is_valid_set(cards)))
          THEN Raise /\ UNCHANGED engine
        ELSE IF p \notin DOMAIN melds
          THEN \* the cards are popped, then self.melds[player.id] raises KeyError
               /\ hand' = [hand EXCEPT ![p] = left]
               /\ Raise
               /\ UNCHANGED <<game, players, score, deck, state, current_player_idx, direction,
                              last_action, discard_pile, melds, notRummy>>
        ELSE /\ hand' = [hand EXCEPT ![p] = left]
             /\ melds' = [melds EXCEPT ![p] = Append(@, cards)]
             /\ last_action' = "meld_laid"
             /\ state' = IF left = <<>> THEN "game_end" ELSE state
             /\ score' = IF left = <<>> THEN [score EXCEPT ![p] = @ + 1] ELSE score
             /\ Return
             /\ UNCHANGED <<game, players, deck, current_player_idx, direction, discard_pile,
                            notRummy>>
  /\ Called

\* RummyGame.add_to_meld(player_id, card_index, meld_index)
RummyAddToMeld(p, i, meld_index) ==
  /\ budget > 0
  /\ game = "rummy"
  /\ IF ~(/\ MayAct(p)
          /\ ValidIndex(hand[p], i)
          /\ p \in DOMAIN melds
          /\ ValidIndex(melds[p], meld_index)
          /\ LET test_meld == Append(melds[p][meld_index + 1], hand[p][i + 1])
             IN is_valid_run(test_meld) \/ is_valid_set(test_meld))
       THEN Raise /\ UNCHANGED engine
     ELSE /\ hand' = [hand EXCEPT ![p] = RemoveAt(@, i + 1)]
          /\ melds' = [melds EXCEPT ![p][meld_index + 1] = Append(@, hand[p][i + 1])]
          /\ last_action' = "card_added_to_meld"
          /\ state' = IF hand'[p] = <<>> THEN "game_end" ELSE state
          /\ score' = IF hand'[p] = <<>> THEN [score EXCEPT ![p] = @ + 1] ELSE score
          /\ Return
          /\ UNCHANGED <<game, players, deck, current_player_idx, direction, discard_pile,
                         notRummy>>
  /\ Called

\* ------------------------------------------------------- get_game_state
\* the hand list of a player dict; show_back is added only for a viewer
HandView(q, for_player_id) ==
  [x \in 1..Len(hand[q]) |->
     [card |-> hand[q][x],
      show_back |-> IF for_player_id = NoPlayer THEN "absent"
                    ELSE IF q # for_player_id THEN "true" ELSE "false"]]

\* BaseGame.get_game_state: the try body raises only at self.current_player
base_get_game_state(for_player_id) ==
  IF CurrentPlayerRaises
    THEN [BlankView EXCEPT !.shape = "fallback", !.error = TRUE,
                           !.keys = (BaseViewKeys \ {"max_selectable_cards"}) \cup {"error"},
                           !.direction = direction]
    ELSE [BlankView EXCEPT !.shape = "normal",
                           !.keys = BaseViewKeys,
                           !.state = state,
                           !.players = [q \in Roster |-> HandView(q, for_player_id)],
                           !.current_player = IF players = <<>> THEN NoPlayer ELSE current_player,
                           !.deck = [cards_remaining |-> Len(deck)],
                           !.direction = direction,
                           !.current_player_idx = current_player_idx]

\* the variant's own entries of the view
VariantFields ==
  CASE game = "snap" -> <<center_pile, Len(center_pile) >= 2, last_card_time>>
    [] game = "go_fish" -> <<sets, Len(deck), last_action>>
    [] game = "bluff" ->
         <<SumLen([x \in 1..Len(bluff_pile) |-> bluff_pile[x].cards], 1..Len(bluff_pile)),
           IF bluff_pile = <<>> THEN <<>>
           ELSE <<Len(Last(bluff_pile).cards), Last(bluff_pile).rank>>,
           current_rank, cards_per_play, last_action>>
    [] game = "scat" ->
         <<IF discard_pile = <<>> THEN <<>> ELSE <<Last(discard_pile)>>, Len(deck), final_round,
           knocked_player_id, lives, last_action>>
    [] game = "rummy" ->
         <<IF discard_pile = <<>> THEN <<>> ELSE <<Last(discard_pile)>>, Len(deck), melds,
           last_action>>
    [] game = "kings_corner" -> <<piles, Len(deck), last_action>>
    [] game = "spades" ->
         <<bids, tricks_won, current_trick, spades_broken, scores, bags, last_action>>
    [] OTHER -> <<spoons, total_spoons, grabbed_spoons, last_action>>

\* The variant's entries raise in two places: SpadesGame reads self.last_action,
\* which __init__ never sets, and SnapGame reads self.current_player once
\* last_card_time is set.
VariantFieldsRaise ==
  \/ game = "spades" /\ last_action = "unset"
  \/ game = "snap" /\ last_card_time = "set" /\ CurrentPlayerRaises

\* the except branch of a variant's get_game_state
VariantFallbackView ==
  [BlankView EXCEPT !.shape = "variant_fallback", !.error = TRUE,
                    !.keys = (BaseViewKeys \ {"host_id", "max_selectable_cards"}) \cup {"error"},
                    !.deck = [cards |-> <<>>],
                    !.direction = direction]

\* get_game_state of the instance's class
get_game_state(for_player_id) ==
  LET base_state == base_get_game_state(for_player_id)
  IN IF game = "go_fish"
       THEN \* the viewer's hand is written into base_state['players'][viewer];
            \* KeyError, re-raised as ValueError, when the base view is the fallback
            IF for_player_id \in Roster /\ base_state.shape = "fallback"
              THEN RaisedView
              ELSE [base_state EXCEPT
                      !.players = [q \in DOMAIN @ |->
                                     IF q = for_player_id THEN HandView(q, NoPlayer) ELSE @[q]],
                      !.variant = VariantFields]
     ELSE IF VariantFieldsRaise THEN VariantFallbackView
     ELSE [base_state EXCEPT !.variant = VariantFields]

\* viewers: NoPlayer is get_game_state() without for_player_id
ViewerInputs == 0..MaxViewer

\* get_game_state that also records the call in last_action
GetGameStateRecording(for_player_id) ==
  /\ view' = get_game_state(for_player_id)
  /\ viewer' = for_player_id
  /\ outcome' = IF view'.shape = "raised" THEN "error" ELSE "ok"
  /\ last_action' = "state_viewed"
  /\ UNCHANGED <<game, players, hand, score, deck, state, current_player_idx, direction,
                 variantVars, budget, lifecycle>>

GetGameState(for_player_id) ==
  /\ view' = get_game_state(for_player_id)
  /\ viewer' = for_player_id
  /\ outcome' = IF view'.shape = "raised" THEN "error" ELSE "ok"
  /\ UNCHANGED <<engine, budget, lifecycle>>

\* ------------------------------------------- main.game_action: documents
\* dict.update: the entries of b replace those of a
Update(a, b) == [key \in DOMAIN a \cup DOMAIN b |-> IF key \in DOMAIN b THEN b[key] ELSE a[key]]

\* formatted_game_data before the merge; only the acting player's hand is listed
formatted_game_data(actor) ==
  [deck |-> [cards |-> deck],
   players |-> [q \in Roster |-> IF q = actor THEN hand[q] ELSE <<>>],
   current_player |-> current_player_idx]

\* raw_game_data = game_instance.get_game_state(), by the keys the restore reads
raw_game_data ==
  LET v == get_game_state(NoPlayer)
  IN [deck |-> v.deck,
      players |-> [q \in DOMAIN v.players |->
                     [x \in 1..Len(v.players[q]) |-> v.players[q][x].card]],
      current_player |-> v.current_player,
      state |-> v.state,
      direction |-> v.direction,
      current_player_idx |-> v.current_player_idx,
      center_pile |-> IF game = "snap" /\ v.shape # "variant_fallback" THEN center_pile ELSE <<>>,
      sets |-> IF game = "go_fish" THEN sets ELSE EmptyMap]

\* the document game_action stores after an action of actor
ExportDocument(actor) == Update(formatted_game_data(actor), raw_game_data)

\* a document that lists the deck and every hand of the instance, except the
\* hand of missing (NoPlayer: no hand is missing)
FullDocument(missing) ==
  [deck |-> [cards |-> deck],
   players |-> [q \in Roster \ {missing} |-> hand[q]],
   current_player |-> IF HasCurrentPlayer THEN current_player ELSE NoPlayer,
   state |-> state,
   direction |-> direction,
   current_player_idx |-> current_player_idx,
   center_pile |-> center_pile,
   sets |-> sets]

\* cards_per_hand of the re-deal: the attribute where the class has one, else
\* _calculate_min_cards_needed() // len(players)
restore_cards_per_hand ==
  CASE game \in {"go_fish", "rummy", "kings_corner"} -> DefaultCardsPerPlayer
    [] game = "spoons" -> SpoonsCardsPerHand
    [] OTHER -> min_cards_needed(Len(players)) \div Len(players)

\* The loop over the players of the restore: the listed hand, or, where the
\* hand is missing or empty, cards_per_hand cards drawn from the deck (a fresh
\* deck when it is empty); acc is the deck, the hands and all_hands_valid so far.
RECURSIVE RestoreHands(_, _, _, _)
RestoreHands(doc, acc, x, k) ==
  IF x > Len(players) THEN acc
  ELSE LET q == players[x]
           listed == IF q \in DOMAIN doc.players THEN doc.players[q] ELSE <<>>
           d == IF acc.deck = <<>> THEN create_deck(k) ELSE acc.deck
           cph == restore_cards_per_hand
       IN IF listed # <<>>
            THEN RestoreHands(doc, [acc EXCEPT !.hand[q] = listed], x + 1, k)
          ELSE IF cph > Len(d)
            THEN RestoreHands(doc, [acc EXCEPT !.deck = d, !.valid = FALSE], x + 1, k)
          ELSE RestoreHands(doc, [acc EXCEPT !.deck = DropLast(d, cph),
                                             !.hand[q] = draw_multiple(d, cph)], x + 1, k)

\* The instance game_action builds from the roster and the document doc: a new
\* object with every player added and state PLAYING, then the saved state where
\* the document has a non-empty deck list, else a new deal.  k is the shuffle
\* of every deck made on the way; ok is FALSE when the request fails.
RestoreResult(doc, k) ==
  LET no_hands == [q \in Roster |-> <<>>]
      has_saved == "cards" \in DOMAIN doc.deck /\ doc.deck.cards # <<>>
      loaded == RestoreHands(doc, [deck |-> doc.deck.cards, hand |-> no_hands, valid |-> TRUE], 1, k)
      redeal == start_game(loaded.hand, create_deck(k), "playing", 0,
                           EmptyMap, EmptyMap, EmptyMap, EmptyMap, k)
      fresh == start_game(no_hands, create_deck(k), "playing", 0,
                          EmptyMap, EmptyMap, EmptyMap, EmptyMap, k)
      kept == [ok |-> TRUE, hand |-> loaded.hand, deck |-> loaded.deck, state |-> "playing",
               idx |-> 0, tricks_won |-> EmptyMap, bids |-> EmptyMap, scores |-> EmptyMap,
               bags |-> EmptyMap, spoons_reset |-> FALSE]
      r == IF ~has_saved THEN fresh ELSE IF loaded.valid THEN kept ELSE redeal
  IN [ok |-> r.ok,
      started |-> r,
      idx |-> IF has_saved THEN doc.current_player_idx ELSE r.idx,
      direction |-> IF has_saved THEN doc.direction ELSE 1,
      center_pile |-> IF has_saved /\ game = "snap" THEN doc.center_pile ELSE <<>>,
      sets |-> IF has_saved /\ game = "go_fish" THEN doc.sets ELSE EmptyMap]

\* documents handed to the restore: the stored one, and full ones with no hand
\* or the hand of one of the first players missing
DocumentInputs ==
  {ExportDocument(NoPlayer)} \cup {FullDocument(missing) : missing \in 0..MaxViewer}

\* The restore of main.game_action, for a room whose game has been started.
\* A request that fails builds no instance.
Restore(doc, k) ==
  /\ lifecycle < MaxLifecycleCalls
  /\ state # "waiting"
  /\ players # <<>>
  /\ LET r == RestoreResult(doc, k)
     IN IF ~r.ok
          THEN Raise /\ UNCHANGED engine
          ELSE /\ hand' = r.started.hand
               /\ score' = [q \in Roster |-> 0]
               /\ deck' = r.started.deck
               /\ state' = r.started.state
               /\ current_player_idx' = r.idx
               /\ direction' = r.direction
               /\ last_action' = IF game \in {"snap", "spades"} THEN "unset" ELSE "none"
               /\ center_pile' = r.center_pile
               /\ last_snap_time' = <<>>
               /\ last_card_time' = "none"
               /\ sets' = r.sets
               /\ bluff_pile' = <<>>
               /\ current_rank' = -1
               /\ cards_per_play' = 1
               /\ last_play_by' = NoPlayer
               /\ discard_pile' = <<>>
               /\ knocked_player_id' = NoPlayer
               /\ final_round' = FALSE
               /\ lives' = EmptyMap
               /\ melds' = EmptyMap
               /\ piles' = EmptyMap
               /\ current_trick' = <<>>
               /\ tricks_won' = r.started.tricks_won
               /\ bids' = r.started.bids
               /\ scores' = r.started.scores
               /\ bags' = r.started.bags
               /\ spades_broken' = FALSE
               /\ spoons' = IF r.started.spoons_reset THEN Len(players) - 1 ELSE 0
               /\ total_spoons' = IF r.started.spoons_reset THEN Len(players) - 1 ELSE 0
               /\ grabbed_spoons' = {}
               /\ loser' = NoPlayer
               /\ Return
               /\ UNCHANGED <<game, players>>
  /\ LifecycleCalled

Next ==
  \/ \E p \in PlayerIds : AddPlayer(p)
  \/ \E p \in PlayerIds : RemovePlayer(p)
  \/ \E k \in 1..NumShuffles : StartGame(k)
  \/ \E p \in PlayerIds : SnapPlayCard(p)
  \/ \E p \in PlayerIds, j \in 1..MaxPlayers : SnapSnap(p, j)
  \/ \E p \in PlayerIds, i \in CardIndexInputs : SpoonsPlayTurn(p, i)
  \/ \E p \in PlayerIds : SpoonsGrabSpoon(p)
  \/ \E asker, target \in PlayerIds, rank \in 0..MaxIndex : GoFishAskForCards(asker, target, rank)
  \/ \E p \in PlayerIds, i \in CardIndexInputs, r \in ClaimInputs : BluffPlayCards(p, <<i>>, r)
  \/ \E p \in PlayerIds : BluffPlayCards(p, <<>>, 0) \/ BluffPlayCards(p, <<0, 1>>, 0)
  \/ \E p \in PlayerIds : BluffChallenge(p)
  \/ \E p \in PlayerIds, i \in CardIndexInputs, pile_id \in {0, KingsCornerFoundations} :
        KingsCornerPlayCard(p, i, pile_id)
  \/ \E p \in PlayerIds, pile_id \in {0, KingsCornerFoundations} :
        KingsCornerMovePile(p, 0, pile_id)
  \/ \E p \in PlayerIds : KingsCornerDrawCard(p)
  \/ \E p \in PlayerIds : KingsCornerEndTurn(p)
  \/ \E p \in PlayerIds, from_discard \in BOOLEAN : ScatDrawCard(p, from_discard)
  \/ \E p \in PlayerIds, i \in CardIndexInputs : ScatDiscardCard(p, i)
  \/ \E p \in PlayerIds : ScatKnock(p)
  \/ \E p \in PlayerIds, from_discard \in BOOLEAN : RummyDrawCard(p, from_discard)
  \/ \E p \in PlayerIds, i \in CardIndexInputs : RummyDiscardCard(p, i)
  \/ \E p \in PlayerIds, card_indices \in MeldSelections : RummyLayMeld(p, card_indices)
  \/ \E p \in PlayerIds, i \in CardIndexInputs : RummyAddToMeld(p, i, 0)
  \/ \E p \in PlayerIds, bid \in {0, SpadesHandSize + 1} : SpadesMakeBid(p, bid)
  \/ \E p \in PlayerIds, i \in CardIndexInputs : SpadesPlayCard(p, i)
  \/ \E for_player_id \in ViewerInputs : GetGameState(for_player_id)
  \/ \E doc \in DocumentInputs, k \in 1..NumShuffles : Restore(doc, k)

Spec == Init /\ [][Next]_vars


\* ------------------------------------------- Spades: the last two tricks
\* The second hand of a Spades game when every player holds two cards.  The
\* first hand was played without bids (start_game leaves the state PLAYING and
\* make_bid asks for STARTING) and scored; for the second hand every player
\* bid 3, and eleven tricks have been played.  The deck is dealt out and the
\* cards of the finished tricks are dropped.
TrickCards ==
  {Card(ACE, HEARTS), Card(FIVE, HEARTS), Card(KING, HEARTS), Card(FIVE, DIAMONDS),
   Card(KING, DIAMONDS), Card(ACE, SPADES), Card(FIVE, SPADES), Card(KING, SPADES)}

\* who holds which of them as the first card of the hand
TrickDeals ==
  {h \in [1..SpadesRequiredPlayers -> TrickCards] :
     \A a, b \in 1..SpadesRequiredPlayers : a # b => h[a] # h[b]}

\* the second card of each hand, a club
LastCards == <<Card(TWO, CLUBS), Card(THREE, CLUBS), Card(FOUR, CLUBS), Card(SIX, CLUBS)>>

\* the turn index of the player who leads the trick
LeaderInputs == {0, 2}

\* the tricks of the first hand, and of the second hand so far
FirstHandTricks == <<8, 2, 2, 1>>
TricksSoFar == <<4, 2, 3, 2>>

LastTrickState ==
  /\ game = "spades"
  /\ players = [x \in 1..SpadesRequiredPlayers |-> x]
  /\ \E h \in TrickDeals : hand = [q \in 1..SpadesRequiredPlayers |-> <<h[q], LastCards[q]>>]
  /\ score = [q \in 1..SpadesRequiredPlayers |-> 0]
  /\ deck = <<>>
  /\ state = "playing"
  /\ current_player_idx \in LeaderInputs
  /\ direction = 1
  /\ last_action = "card_played"
  /\ center_pile = <<>>
  /\ last_snap_time = <<>>
  /\ last_card_time = "none"
  /\ sets = EmptyMap
  /\ bluff_pile = <<>>
  /\ current_rank = -1
  /\ cards_per_play = 1
  /\ last_play_by = NoPlayer
  /\ discard_pile = <<>>
  /\ knocked_player_id = NoPlayer
  /\ final_round = FALSE
  /\ lives = EmptyMap
  /\ melds = EmptyMap
  /\ piles = EmptyMap
  /\ current_trick = <<>>
  /\ tricks_won = [q \in 1..SpadesRequiredPlayers |-> TricksSoFar[q]]
  /\ bids = [q \in 1..SpadesRequiredPlayers |-> 3]
  \* _score_hand of the first hand, every bid -1: -10 + (tricks + 1), bags tricks + 1
  /\ scores = [q \in 1..SpadesRequiredPlayers |-> FirstHandTricks[q] - 9]
  /\ bags = [q \in 1..SpadesRequiredPlayers |-> FirstHandTricks[q] + 1]
  /\ spades_broken = TRUE
  /\ spoons = 0
  /\ total_spoons = 0
  /\ grabbed_spoons = {}
  /\ loser = NoPlayer
  /\ outcome = "ok"
  /\ view = NoView
  /\ viewer = NoPlayer

InitLastTrick ==
  /\ LastTrickState
  /\ budget = MaxTrickSteps
  /\ lifecycle = MaxLifecycleCalls

NextLastTrick ==
  \/ \E p \in PlayerIds, i \in CardIndexInputs : SpadesPlayCard(p, i)
  \/ \E p \in PlayerIds, bid \in {0, SpadesHandSize + 1} : SpadesMakeBid(p, bid)
  \/ \E for_player_id \in ViewerInputs : GetGameState(for_player_id)

SpecLastTrick == InitLastTrick /\ [][NextLastTrick]_vars

\* The deals of these that give the first player the Ace of hearts and the
\* second the King of spades, with a start_game call among the requests.
InitSpadesRestart ==
  /\ LastTrickState
  /\ hand[1][1] = Card(ACE, HEARTS)
  /\ hand[2][1] = Card(KING, SPADES)
  /\ budget = MaxRestartSteps
  /\ lifecycle = MaxLifecycleCalls - 1

NextSpadesRestart ==
  \/ \E p \in PlayerIds, i \in CardIndexInputs : SpadesPlayCard(p, i)
  \/ \E k \in 1..NumShuffles : StartGame(k)
  \/ \E for_player_id \in ViewerInputs : GetGameState(for_player_id)

SpecSpadesRestart == InitSpadesRestart /\ [][NextSpadesRestart]_vars


\* ------------------------------------------------ Scat: after the deal
\* A Scat game of two players right after start_game, for the deals that give
\* the players three each of the cards ScatCards: the discard pile is empty,
\* no lives are set (BaseGame.start_game deals, deal_initial_cards is not
\* called), and the two cards of ScatCards left over are on top of the deck.
ScatCards ==
  {Card(ACE, HEARTS), Card(SEVEN, HEARTS), Card(TEN, HEARTS), Card(JACK, HEARTS),
   Card(QUEEN, HEARTS), Card(TWO, CLUBS), Card(THREE, DIAMONDS), Card(FOUR, SPADES)}

\* the cards of the set S as a list, in ascending order
RECURSIVE Ascending(_)
Ascending(S) ==
  IF S = {} THEN <<>>
  ELSE LET c == CHOOSE x \in S : \A y \in S : x <= y IN <<c>> \o Ascending(S \ {c})

ScatDeals ==
  {d \in [1..2 -> SUBSET ScatCards] :
     d[1] \cap d[2] = {} /\ \A q \in 1..2 : Cardinality(d[q]) = ScatHandSize}

InitScatDealt ==
  /\ game = "scat"
  /\ players = <<1, 2>>
  /\ \E d \in ScatDeals :
       /\ hand = [q \in 1..2 |-> Ascending(d[q])]
       /\ deck = Ascending(Cards \ ScatCards) \o Ascending(ScatCards \ (d[1] \cup d[2]))
  /\ score = [q \in 1..2 |-> 0]
  /\ state = "playing"
  /\ current_player_idx = 0
  /\ direction = 1
  /\ last_action = "none"
  /\ center_pile = <<>>
  /\ last_snap_time = <<>>
  /\ last_card_time = "none"
  /\ sets = EmptyMap
  /\ bluff_pile = <<>>
  /\ current_rank = -1
  /\ cards_per_play = 1
  /\ last_play_by = NoPlayer
  /\ discard_pile = <<>>
  /\ knocked_player_id = NoPlayer
  /\ final_round = FALSE
  /\ lives = EmptyMap
  /\ melds = EmptyMap
  /\ piles = EmptyMap
  /\ current_trick = <<>>
  /\ tricks_won = EmptyMap
  /\ bids = EmptyMap
  /\ scores = EmptyMap
  /\ bags = EmptyMap
  /\ spades_broken = FALSE
  /\ spoons = 0
  /\ total_spoons = 0
  /\ grabbed_spoons = {}
  /\ loser = NoPlayer
  /\ outcome = "ok"
  /\ view = NoView
  /\ viewer = NoPlayer
  /\ budget = MaxScatSteps
  /\ lifecycle = MaxLifecycleCalls

NextScatDealt ==
  \/ \E p \in PlayerIds, from_discard \in BOOLEAN : ScatDrawCard(p, from_discard)
  \/ \E p \in PlayerIds, i \in CardIndexInputs : ScatDiscardCard(p, i)
  \/ \E p \in PlayerIds : ScatKnock(p)
  \/ \E for_player_id \in ViewerInputs : GetGameState(for_player_id)

SpecScatDealt == InitScatDealt /\ [][NextScatDealt]_vars

\* ----------------------------------------------- Rummy: after the deal
\* A Rummy game of two players right after start_game, for the deals that put
\* three of the cards RummyCards, in any order, at the front of the first
\* player's hand: no discard pile and no meld lists are set (BaseGame.start_game
\* deals, deal_initial_cards is not called).
RummyCards ==
  {Card(ACE, HEARTS), Card(TWO, HEARTS), Card(THREE, HEARTS), Card(FIVE, HEARTS),
   Card(TEN, HEARTS), Card(JACK, HEARTS), Card(QUEEN, HEARTS), Card(FIVE, DIAMONDS),
   Card(FIVE, SPADES)}

MeldTriples ==
  {t \in [1..3 -> RummyCards] : t[1] # t[2] /\ t[1] # t[3] /\ t[2] # t[3]}

\* the other cards of the two hands
RummyFillers ==
  <<{Card(SEVEN, CLUBS), Card(TEN, CLUBS), Card(JACK, SPADES), Card(KING, DIAMONDS)},
    {Card(TWO, CLUBS), Card(FOUR, DIAMONDS), Card(SIX, SPADES), Card(SEVEN, DIAMONDS),
     Card(TEN, SPADES), Card(QUEEN, CLUBS), Card(KING, CLUBS)}>>

InitRummyDealt ==
  /\ game = "rummy"
  /\ players = <<1, 2>>
  /\ \E t \in MeldTriples :
       /\ hand = [q \in 1..2 |-> IF q = 1 THEN t \o Ascending(RummyFillers[1])
                                ELSE Ascending(RummyFillers[2])]
       /\ deck = Ascending(Cards \ (SeqToSet(t) \cup RummyFillers[1] \cup RummyFillers[2]))
  /\ score = [q \in 1..2 |-> 0]
  /\ state = "playing"
  /\ current_player_idx = 0
  /\ direction = 1
  /\ last_action = "none"
  /\ center_pile = <<>>
  /\ last_snap_time = <<>>
  /\ last_card_time = "none"
  /\ sets = EmptyMap
  /\ bluff_pile = <<>>
  /\ current_rank = -1
  /\ cards_per_play = 1
  /\ last_play_by = NoPlayer
  /\ discard_pile = <<>>
  /\ knocked_player_id = NoPlayer
  /\ final_round = FALSE
  /\ lives = EmptyMap
  /\ melds = EmptyMap
  /\ piles = EmptyMap
  /\ current_trick = <<>>
  /\ tricks_won = EmptyMap
  /\ bids = EmptyMap
  /\ scores = EmptyMap
  /\ bags = EmptyMap
  /\ spades_broken = FALSE
  /\ spoons = 0
  /\ total_spoons = 0
  /\ grabbed_spoons = {}
  /\ loser = NoPlayer
  /\ outcome = "ok"
  /\ view = NoView
  /\ viewer = NoPlayer
  /\ budget = MaxRummySteps
  /\ lifecycle = MaxLifecycleCalls

NextRummyDealt ==
  \/ \E p \in PlayerIds, from_discard \in BOOLEAN : RummyDrawCard(p, from_discard)
  \/ \E p \in PlayerIds, i \in CardIndexInputs : RummyDiscardCard(p, i)
  \/ \E p \in PlayerIds, card_indices \in MeldSelections : RummyLayMeld(p, card_indices)
  \/ \E p \in PlayerIds, i \in CardIndexInputs : RummyAddToMeld(p, i, 0)
  \/ \E for_player_id \in ViewerInputs : GetGameState(for_player_id)

SpecRummyDealt == InitRummyDealt /\ [][NextRummyDealt]_vars

\* ------------------------------------------- Scat and Rummy: deck used up
\* Scat and Rummy games of two players late in a round: the deck is down to
\* one card or empty.  In Scat the hands hold three cards, so the draws and
\* discards of the turns so far have put the other cards on the discard pile;
\* in Rummy, which has no hand limit, the first player has drawn the deck and
\* the players have discarded in turn, pile_size cards in all (with 13 the
\* second player is down to one card).
PileSizes == {0, 1, 2, 3, 13}

\* cards from..to of the deck in ascending order
Slice(from, to) == SubSeq(Ascending(Cards), from, to)

LateTables ==
  IF game = "scat"
    THEN {[hand |-> <<Slice(1, 3), Slice(4, 6)>>,
           deck |-> Slice(7, 6 + in_deck),
           discard |-> Slice(7 + in_deck, DeckSize),
           idx |-> 0] : in_deck \in 0..1}
    ELSE {[hand |-> <<Slice(pile_size + 8 - pile_size \div 2 + in_deck, DeckSize),
                      Slice(pile_size + 1, pile_size + 7 - pile_size \div 2)>>,
           deck |-> Slice(pile_size + 8 - pile_size \div 2,
                          pile_size + 7 - pile_size \div 2 + in_deck),
           discard |-> Slice(1, pile_size),
           idx |-> pile_size % 2] : pile_size \in PileSizes, in_deck \in 0..1}

InitDeckExhausted ==
  /\ game \in {"scat", "rummy"}
  /\ players = <<1, 2>>
  /\ \E t \in LateTables :
       /\ hand = t.hand
       /\ deck = t.deck
       /\ discard_pile = t.discard
       /\ current_player_idx = t.idx
  /\ score = [q \in 1..2 |-> 0]
  /\ state = "playing"
  /\ direction = 1
  /\ last_action = "card_discarded"
  /\ center_pile = <<>>
  /\ last_snap_time = <<>>
  /\ last_card_time = "none"
  /\ sets = EmptyMap
  /\ bluff_pile = <<>>
  /\ current_rank = -1
  /\ cards_per_play = 1
  /\ last_play_by = NoPlayer
  /\ knocked_player_id = NoPlayer
  /\ final_round = FALSE
  /\ lives = EmptyMap
  /\ melds = EmptyMap
  /\ piles = EmptyMap
  /\ current_trick = <<>>
  /\ tricks_won = EmptyMap
  /\ bids = EmptyMap
  /\ scores = EmptyMap
  /\ bags = EmptyMap
  /\ spades_broken = FALSE
  /\ spoons = 0
  /\ total_spoons = 0
  /\ grabbed_spoons = {}
  /\ loser = NoPlayer
  /\ outcome = "ok"
  /\ view = NoView
  /\ viewer = NoPlayer
  /\ budget = MaxDrawSteps
  /\ lifecycle = MaxLifecycleCalls

NextDeckExhausted ==
  \/ \E p \in PlayerIds, from_discard \in BOOLEAN : ScatDrawCard(p, from_discard)
  \/ \E p \in PlayerIds, i \in CardIndexInputs : ScatDiscardCard(p, i)
  \/ \E p \in PlayerIds, from_discard \in BOOLEAN : RummyDrawCard(p, from_discard)
  \/ \E p \in PlayerIds, i \in CardIndexInputs : RummyDiscardCard(p, i)
  \/ \E for_player_id \in ViewerInputs : GetGameState(for_player_id)

SpecDeckExhausted == InitDeckExhausted /\ [][NextDeckExhausted]_vars

\* ------------------------------------------------------- Snap, late in a game
\* Two players after start_game and six alternating play_card calls: each
\* holds the last card it was dealt, the six cards played lie on the centre
\* pile, and the turn is back at the first player.
SnapCards ==
  {Card(ACE, HEARTS), Card(TWO, HEARTS), Card(THREE, HEARTS), Card(FOUR, HEARTS),
   Card(ACE, DIAMONDS), Card(TWO, DIAMONDS), Card(THREE, DIAMONDS), Card(FOUR, DIAMONDS)}

SnapLateDeals == {d \in [1..2 -> SnapCards] : d[1] # d[2]}

InitSnapLate ==
  /\ game = "snap"
  /\ players = <<1, 2>>
  /\ \E d \in SnapLateDeals :
       /\ hand = [q \in 1..2 |-> <<d[q]>>]
       /\ center_pile = Ascending(SnapCards \ {d[1], d[2]})
       /\ deck = Ascending(Cards \ SnapCards)
  /\ score = [q \in 1..2 |-> 0]
  /\ state = "playing"
  /\ current_player_idx = 0
  /\ direction = 1
  /\ last_action = "card_played"
  /\ last_snap_time = <<>>
  /\ last_card_time = "set"
  /\ sets = EmptyMap
  /\ bluff_pile = <<>>
  /\ current_rank = -1
  /\ cards_per_play = 1
  /\ last_play_by = NoPlayer
  /\ discard_pile = <<>>
  /\ knocked_player_id = NoPlayer
  /\ final_round = FALSE
  /\ lives = EmptyMap
  /\ melds = EmptyMap
  /\ piles = EmptyMap
  /\ current_trick = <<>>
  /\ tricks_won = EmptyMap
  /\ bids = EmptyMap
  /\ scores = EmptyMap
  /\ bags = EmptyMap
  /\ spades_broken = FALSE
  /\ spoons = 0
  /\ total_spoons = 0
  /\ grabbed_spoons = {}
  /\ loser = NoPlayer
  /\ outcome = "ok"
  /\ view = NoView
  /\ viewer = NoPlayer
  /\ budget = MaxSnapSteps
  /\ lifecycle = MaxLifecycleCalls

NextSnapLate ==
  \/ \E p \in PlayerIds : SnapPlayCard(p)
  \/ \E p \in PlayerIds, j \in 1..MaxPlayers : SnapSnap(p, j)
  \/ \E for_player_id \in ViewerInputs : GetGameState(for_player_id)

SpecSnapLate == InitSnapLate /\ [][NextSnapLate]_vars

\* ------------------------------------------------------ Bluff, late in a game
\* Two players after start_game (26 cards each) and 25 plays of one card by
\* each, none of them challenged: each holds one card, the other 50 lie on
\* the centre pile under consecutive claims that began with
\* BluffFirstClaim, and the turn is back at the first player, who has to
\* claim aces.
BluffLateCards == {Card(ACE, HEARTS), Card(ACE, SPADES), Card(TWO, HEARTS), Card(KING, CLUBS)}
BluffLateDeals == {d \in [1..2 -> BluffLateCards] : d[1] # d[2]}
BluffFirstClaim == THREE

InitBluffLate ==
  /\ game = "bluff"
  /\ players = <<1, 2>>
  /\ \E d \in BluffLateDeals :
       /\ hand = [q \in 1..2 |-> <<d[q]>>]
       /\ bluff_pile = [x \in 1..(DeckSize - 2) |->
                          [cards |-> <<Ascending(Cards \ {d[1], d[2]})[x]>>,
                           rank |-> (BluffFirstClaim + x - 1) % NumRanks]]
  /\ deck = <<>>
  /\ score = [q \in 1..2 |-> 0]
  /\ state = "playing"
  /\ current_player_idx = 0
  /\ direction = 1
  /\ last_action = "cards_played"
  /\ center_pile = <<>>
  /\ last_snap_time = <<>>
  /\ last_card_time = "none"
  /\ sets = EmptyMap
  /\ current_rank = (BluffFirstClaim + DeckSize - 2) % NumRanks
  /\ cards_per_play = 1
  /\ last_play_by = 2
  /\ discard_pile = <<>>
  /\ knocked_player_id = NoPlayer
  /\ final_round = FALSE
  /\ lives = EmptyMap
  /\ melds = EmptyMap
  /\ piles = EmptyMap
  /\ current_trick = <<>>
  /\ tricks_won = EmptyMap
  /\ bids = EmptyMap
  /\ scores = EmptyMap
  /\ bags = EmptyMap
  /\ spades_broken = FALSE
  /\ spoons = 0
  /\ total_spoons = 0
  /\ grabbed_spoons = {}
  /\ loser = NoPlayer
  /\ outcome = "ok"
  /\ view = NoView
  /\ viewer = NoPlayer
  /\ budget = MaxBluffSteps
  /\ lifecycle = MaxLifecycleCalls

NextBluffLate ==
  \/ \E p \in PlayerIds, i \in CardIndexInputs, r \in ClaimInputs : BluffPlayCards(p, <<i>>, r)
  \/ \E p \in PlayerIds : BluffChallenge(p)
  \/ \E for_player_id \in ViewerInputs : GetGameState(for_player_id)

SpecBluffLate == InitBluffLate /\ [][NextBluffLate]_vars

\* ------------------------------------------- Spades, a bid of no tricks
\* The same second hand with other bids and tricks: the first player, with 9
\* bags from the first hand, has bid 0 and won all eleven tricks so far.
NilBids == <<0, 3, 3, 3>>
NilBidTricksSoFar == <<11, 0, 0, 0>>

InitNilBid ==
  /\ game = "spades"
  /\ players = [x \in 1..SpadesRequiredPlayers |-> x]
  /\ \E h \in TrickDeals : hand = [q \in 1..SpadesRequiredPlayers |-> <<h[q], LastCards[q]>>]
  /\ score = [q \in 1..SpadesRequiredPlayers |-> 0]
  /\ deck = <<>>
  /\ state = "playing"
  /\ current_player_idx \in LeaderInputs
  /\ direction = 1
  /\ last_action = "card_played"
  /\ center_pile = <<>>
  /\ last_snap_time = <<>>
  /\ last_card_time = "none"
  /\ sets = EmptyMap
  /\ bluff_pile = <<>>
  /\ current_rank = -1
  /\ cards_per_play = 1
  /\ last_play_by = NoPlayer
  /\ discard_pile = <<>>
  /\ knocked_player_id = NoPlayer
  /\ final_round = FALSE
  /\ lives = EmptyMap
  /\ melds = EmptyMap
  /\ piles = EmptyMap
  /\ current_trick = <<>>
  /\ tricks_won = [q \in 1..SpadesRequiredPlayers |-> NilBidTricksSoFar[q]]
  /\ bids = [q \in 1..SpadesRequiredPlayers |-> NilBids[q]]
  \* _score_hand of the first hand, every bid -1: -10 + (tricks + 1), bags tricks + 1
  /\ scores = [q \in 1..SpadesRequiredPlayers |-> FirstHandTricks[q] - 9]
  /\ bags = [q \in 1..SpadesRequiredPlayers |-> FirstHandTricks[q] + 1]
  /\ spades_broken = TRUE
  /\ spoons = 0
  /\ total_spoons = 0
  /\ grabbed_spoons = {}
  /\ loser = NoPlayer
  /\ outcome = "ok"
  /\ view = NoView
  /\ viewer = NoPlayer
  /\ budget = MaxTrickSteps
  /\ lifecycle = MaxLifecycleCalls

SpecNilBid == InitNilBid /\ [][NextLastTrick]_vars

\* ================================================================ claims
\* every card the instance holds: the deck, the hands and the table (center
\* piles, discard pile, melds and sets, foundation and corner piles, the trick)
FlattenAll(f) == ConcatAll([q \in DOMAIN f |-> Flatten(f[q])], DOMAIN f)
TableCards ==
  center_pile
    \o Flatten([x \in 1..Len(bluff_pile) |-> bluff_pile[x].cards])
    \o discard_pile
    \o FlattenAll(melds)
    \o FlattenAll(sets)
    \o ConcatAll(piles, DOMAIN piles)
    \o [x \in 1..Len(current_trick) |-> current_trick[x].card]
AllCards == deck \o ConcatAll(hand, Roster) \o TableCards
FullDeck == Len(AllCards) = DeckSize /\ SeqToSet(AllCards) = Cards

\* a step of a game action or of get_game_state: no start_game, roster call or
\* restore
NoLifecycleStep == lifecycle' = lifecycle /\ players' = players

\* C1: immediately after a successful start_game, in every variant, deck +
\* hands + variant piles hold exactly 52 cards and no card twice.
C1_StartDealsFullDeck ==
  [][((\E k \in 1..NumShuffles : StartGame(k)) /\ outcome' = "ok") => FullDeck']_vars

\* C2: no game action, successful or failed, creates, duplicates or loses a
\* card: a round that holds the 52 cards holds them after every action.
C2_ActionsConserveCards ==
  [][(NoLifecycleStep /\ state = "playing" /\ FullDeck) => FullDeck']_vars

\* C3: an action call that raises leaves the whole game state as it was.
C3_FailedActionChangesNothing ==
  [][(NoLifecycleStep /\ outcome' = "error") => engine' = engine]_vars

\* C4: with a non-empty roster the turn index is a valid index of the roster.
C4_TurnIndexInRoster ==
  players # <<>> => (current_player_idx >= 0 /\ current_player_idx < Len(players))

\* the state a round trip has to preserve
InstanceState ==
  <<state, hand, deck, current_player_idx, score, center_pile, bluff_pile, current_rank,
    discard_pile, lives, melds, sets, piles, bids, tricks_won, current_trick, spoons>>

\* C5: the instance rebuilt from the document exported for the current state
\* is equivalent to the instance exported.
C5_ExportRestoreRoundTrip ==
  [][(\E k \in 1..NumShuffles : Restore(ExportDocument(NoPlayer), k)) =>
       (outcome' = "ok" /\ InstanceState' = InstanceState)]_vars

\* the initial hand sizes of the variant: the size start_game deals, and the
\* size the class names as its cards per hand
InitialHandSizes ==
  {min_cards_needed(Len(players)) \div Len(players), restore_cards_per_hand}

\* C6: a restore from a document in which exactly one player's hand is missing
\* does not fail, gives that player an initial hand size of the variant and every
\* other player the hand the document records.
C6_MissingHandRedealt ==
  [][\A m \in Roster :
       ((\A q \in Roster \ {m} : hand[q] # <<>>)
          /\ \E k \in 1..NumShuffles : Restore(FullDocument(m), k))
       => (/\ outcome' = "ok"
           /\ Len(hand'[m]) \in InitialHandSizes
           /\ \A q \in Roster \ {m} : hand'[q] = hand[q])]_vars

\* C7: the view for no viewer discloses no card of any hand.
C7_NeutralViewHidesHands ==
  (view.shape \notin {"none", "raised"} /\ viewer = NoPlayer)
    => \A q \in DOMAIN view.players : view.players[q] = <<>>

\* C8: the view for player X has an entry for every player's hand, every card
\* of another player's hand with show_back = true, no card of X's own hand so.
C8_ViewerSeesOnlyOwnCards ==
  (view.shape # "none" /\ viewer \in Roster)
    => /\ view.shape # "raised"
       /\ DOMAIN view.players = Roster
       /\ \A q \in Roster :
            /\ Len(view.players[q]) = Len(hand[q])
            /\ \A x \in 1..Len(view.players[q]) :
                 (view.players[q][x].show_back = "true") <=> (q # viewer)

\* the base keys every view carries
RequiredViewKeys ==
  {"room_code", "state", "players", "current_player", "deck", "direction", "current_player_idx"}

\* C9: get_game_state never raises; it returns the normal view or a fallback
\* view with an error entry and the base keys.
C9_ViewNeverRaises ==
  view.shape # "none"
    => /\ view.shape # "raised"
       /\ RequiredViewKeys \subseteq view.keys
       /\ (view.shape # "normal" => view.error)

CardPlaces ==
  <<deck, hand, center_pile, bluff_pile, discard_pile, melds, sets, piles, current_trick>>

\* C11: once the state is GAME_END, no action method and no start_game changes
\* the state or moves a card.
C11_GameEndIsTerminal ==
  [][(state = "game_end" /\ (NoLifecycleStep \/ \E k \in 1..NumShuffles : StartGame(k)))
       => (state' = "game_end" /\ CardPlaces' = CardPlaces)]_vars

\* C12: ROUND_END is entered only from PLAYING, and an action that resolves a
\* round (it is taken in PLAYING and leaves PLAYING) ends in GAME_END or, the
\* next round dealt, in PLAYING: never in ROUND_END, WAITING or STARTING.
C12_RoundEndIsTransient ==
  [][NoLifecycleStep =>
       /\ (state' = "round_end" /\ state # "round_end") => state = "playing"
       /\ state = "playing" => state' \in {"playing", "game_end"}]_vars

\* C13: add_player and remove_player change the roster only in WAITING; in
\* every other state the call is rejected and the roster stays as it is.
C13_RosterOnlyInWaiting ==
  [][(state # "waiting" /\ \E p \in PlayerIds : AddPlayer(p) \/ RemovePlayer(p))
       => (outcome' = "error" /\ players' = players /\ hand' = hand)]_vars

\* the roster is too small for the variant's start_game
TooFewPlayers ==
  \/ Len(players) < BaseMinPlayers
  \/ game = "spades" /\ Len(players) # SpadesRequiredPlayers
  \/ game = "spoons" /\ Len(players) < SpoonsMinPlayers

\* C14: with too few players start_game fails and deals nothing: afterwards
\* the state is not PLAYING and every hand is as before.
C14_StartNeedsPlayers ==
  [][(TooFewPlayers /\ \E k \in 1..NumShuffles : StartGame(k))
       => (outcome' = "error" /\ state' # "playing" /\ hand' = hand)]_vars

\* the instance has been started before, or holds hands
StartedBefore == state # "waiting" \/ \E q \in Roster : hand[q] # <<>>

\* C15: a start_game on an instance that was started before deals anew: deck,
\* hands and piles hold the 52 cards again and every player holds the hand
\* size start_game deals.
C15_RestartDealsAnew ==
  [][(StartedBefore /\ (\E k \in 1..NumShuffles : StartGame(k)) /\ outcome' = "ok")
       => (/\ FullDeck'
           /\ \A q \in Roster :
                Len(hand'[q]) = min_cards_needed(Len(players)) \div Len(players))]_vars

\* the card the step takes from the hand of the player to move, and the trick
\* it completes
PlayedCard ==
  CHOOSE c \in SeqToSet(hand[current_player]) : c \notin SeqToSet(hand'[current_player])
CompletedTrick == Append(current_trick, [pid |-> current_player, card |-> PlayedCard])

\* a play_card that completes a trick of four cards
TrickCompleted ==
  /\ game = "spades" /\ state = "playing" /\ NoLifecycleStep /\ outcome' = "ok"
  /\ Len(current_trick) = SpadesRequiredPlayers - 1
  /\ current_trick' = <<>>

\* the position in the trick of the highest-ranked card among the positions S,
\* ranks in the order of the Rank enumeration (Ace ... King)
HighestOf(trick, S) ==
  CHOOSE x \in S : \A y \in S : RankOf(trick[y].card) <= RankOf(trick[x].card)

\* the winner the rule names: the highest spade if a spade was played, else
\* the highest card of the suit led
RuleWinner(trick) ==
  LET trumps == {x \in 1..Len(trick) : SuitOf(trick[x].card) = SPADES}
      led == {x \in 1..Len(trick) : SuitOf(trick[x].card) = SuitOf(trick[1].card)}
  IN trick[HighestOf(trick, IF trumps # {} THEN trumps ELSE led)].pid

\* C16: a complete trick of four cards goes to the player of the highest spade
\* if a spade was played, else to the player of the highest card of the suit
\* led: that player's trick count rises by one and that player leads next.
C16_TrickWinner ==
  [][(TrickCompleted /\ state' = "playing")
       => LET w == RuleWinner(CompletedTrick)
          IN /\ tricks_won' = [tricks_won EXCEPT ![w] = @ + 1]
             /\ current_player_idx' = IndexOf(w) - 1]_vars

\* a trick has been won by a player who did not lead it
C16_Witness ==
  /\ game = "spades" /\ state = "playing" /\ current_trick = <<>>
  /\ \A q \in Roster : Len(hand[q]) = 1
  /\ \E q \in Roster :
       /\ tricks_won[q] = TricksSoFar[q] + 1
       /\ current_player_idx = IndexOf(q) - 1
       /\ current_player_idx \notin LeaderInputs

\* the value the rule gives a card: face value for number cards, 10 for Jack,
\* Queen and King, 11 for the Ace
RuleCardValue(c) ==
  IF RankOf(c) = ACE THEN 11
  ELSE IF RankOf(c) \in {JACK, QUEEN, KING} THEN 10
  ELSE RankOf(c) + 1

RECURSIVE RuleSum(_)
RuleSum(S) ==
  IF S = {} THEN 0 ELSE LET c == CHOOSE x \in S : TRUE IN RuleCardValue(c) + RuleSum(S \ {c})

\* the best single-suit sum of the cards S, capped at 31
RuleHandValue(S) ==
  LET sums == {RuleSum({c \in S : SuitOf(c) = s}) : s \in {HEARTS, DIAMONDS, CLUBS, SPADES}}
      best == CHOOSE v \in sums : \A w \in sums : w <= v
  IN IF best > 31 THEN 31 ELSE best

TenJackQueenOfHearts == {Card(TEN, HEARTS), Card(JACK, HEARTS), Card(QUEEN, HEARTS)}
MixedLowCards == {Card(TWO, CLUBS), Card(THREE, DIAMONDS), Card(FOUR, SPADES)}

\* C17 (as stated): the value of every Scat hand is its best single-suit sum
\* (number cards at face value, J/Q/K 10, Ace 11) capped at 31; the hand
\* 10, Jack, Queen of hearts scores 31 and the hand 2 of clubs, 3 of diamonds,
\* 4 of spades scores 4.
C17_HandValueAsStated ==
  game = "scat" =>
    \A q \in Roster :
      /\ calculate_hand_value(hand[q]) = RuleHandValue(SeqToSet(hand[q]))
      /\ SeqToSet(hand[q]) = TenJackQueenOfHearts => calculate_hand_value(hand[q]) = 31
      /\ SeqToSet(hand[q]) = MixedLowCards => calculate_hand_value(hand[q]) = 4

\* C17 (amended): the value of every Scat hand is its best single-suit sum
\* capped at 31; the hand 10, Jack, Queen of hearts scores 30 (three cards of
\* value 10) and the hand 2 of clubs, 3 of diamonds, 4 of spades scores 4.
C17_HandValue ==
  game = "scat" =>
    \A q \in Roster :
      /\ calculate_hand_value(hand[q]) = RuleHandValue(SeqToSet(hand[q]))
      /\ SeqToSet(hand[q]) = TenJackQueenOfHearts => calculate_hand_value(hand[q]) = 30
      /\ SeqToSet(hand[q]) = MixedLowCards => calculate_hand_value(hand[q]) = 4

\* the knocker, who knocked on three cards, has made the closing discard, so
\* _end_round has valued the hands, one of them 10, Jack, Queen of hearts
C17_Witness ==
  /\ game = "scat"
  /\ final_round
  /\ knocked_player_id \in Roster
  /\ Len(hand[knocked_player_id]) = ScatHandSize - 1
  /\ outcome = "error"
  /\ \E q \in Roster : SeqToSet(hand[q]) = TenJackQueenOfHearts

\* the cards of the Bluff center pile, and whether the most recent play holds
\* only cards of the rank it claimed
PileCards == Flatten([x \in 1..Len(bluff_pile) |-> bluff_pile[x].cards])
LastPlayTruthful ==
  \A x \in 1..Len(Last(bluff_pile).cards) :
    RankOf(Last(bluff_pile).cards[x]) = Last(bluff_pile).rank

\* player c challenges the most recent play of a Bluff game in progress
Challenged(c) ==
  /\ game = "bluff"
  /\ state = "playing"
  /\ bluff_pile # <<>>
  /\ c \in Roster
  /\ BluffChallenge(c)

\* player q holds after the step what they held before and the whole pile
TakesPile(q) ==
  /\ Len(hand'[q]) = Len(hand[q]) + Len(PileCards)
  /\ SeqToSet(hand'[q]) = SeqToSet(hand[q]) \cup SeqToSet(PileCards)

\* C18: when a play of only cards of the claimed rank is challenged, the
\* challenger receives every card of the center pile, the pile becomes empty
\* and the player who made the play gains exactly one point.
C18_TruthfulPlayChallenged ==
  [][\A c \in PlayerIds :
       (Challenged(c) /\ LastPlayTruthful) =>
         /\ TakesPile(c)
         /\ bluff_pile' = <<>>
         /\ last_play_by \in Roster
         /\ score'[last_play_by] = score[last_play_by] + 1]_vars

\* C19: when a play holding a card of another rank than the claimed one is
\* challenged, the player who made the play receives every card of the center
\* pile, the pile becomes empty and the challenger gains exactly one point.
C19_FalsePlayChallenged ==
  [][\A c \in PlayerIds :
       (Challenged(c) /\ ~LastPlayTruthful) =>
         /\ last_play_by \in Roster
         /\ TakesPile(last_play_by)
         /\ bluff_pile' = <<>>
         /\ score'[c] = score[c] + 1]_vars

\* the cards on a pile; the corner piles of a started game hold no card until
\* one is played onto them
CardsOnPile(pile_id) == IF pile_id \in DOMAIN piles THEN piles[pile_id] ELSE <<>>
IsRed(c) == SuitOf(c) \in {HEARTS, DIAMONDS}

\* the placement rule: an empty corner takes a King only, an empty foundation
\* any card, a pile with cards a card one rank below its top card and of the
\* other colour
PlacementLegal(c, pile_id) ==
  IF CardsOnPile(pile_id) = <<>>
    THEN IsCorner(pile_id) => RankOf(c) = KING
    ELSE /\ RankOf(c) + 1 = RankOf(Last(CardsOnPile(pile_id)))
         /\ IsRed(c) # IsRed(Last(CardsOnPile(pile_id)))

\* C20: in a started Kings Corner game, play_card by the player to move is
\* accepted exactly when the placement is legal (empty corner: King only,
\* empty foundation: any card, else one rank below the top card and opposite
\* colour); an accepted card goes from the hand onto the pile, a rejected
\* placement changes nothing.
C20_PlacementLegality ==
  [][\A p \in PlayerIds, i \in CardIndexInputs, pile_id \in PileIds :
       (/\ game = "kings_corner"
        /\ MayAct(p)
        /\ ValidIndex(hand[p], i)
        /\ pile_id \in DOMAIN piles \/ IsCorner(pile_id)
        /\ KingsCornerPlayCard(p, i, pile_id)) =>
         IF PlacementLegal(hand[p][i + 1], pile_id)
           THEN /\ outcome' = "ok"
                /\ hand'[p] = RemoveAt(hand[p], i + 1)
                /\ pile_id \in DOMAIN piles'
                /\ piles'[pile_id] = Append(CardsOnPile(pile_id), hand[p][i + 1])
           ELSE /\ outcome' = "error"
                /\ engine' = engine]_vars

\* a first start_game call on an instance nobody has started, which returns
FirstStart ==
  /\ state = "waiting"
  /\ \A q \in Roster : hand[q] = <<>>
  /\ \E k \in 1..NumShuffles : StartGame(k)
  /\ outcome' = "ok"

\* the initial hand sizes the variants specify
SpecifiedHandSizes ==
  CASE game = "snap" -> {4}
    [] game = "go_fish" -> 5..7
    [] game = "scat" -> {3}
    [] game = "rummy" -> {7}
    [] game = "kings_corner" -> {7}
    [] game = "spades" -> {13}
    [] game = "spoons" -> {4}
    [] OTHER -> 0..DeckSize

\* C21: after a successful start_game every player holds the variant's
\* specified initial hand: Snap 4, Go Fish 5 to 7, Scat 3, Rummy 7,
\* Kings Corner 7, Spades 13, Spoons 4.
C21_InitialHands ==
  [][FirstStart => \A q \in Roster : Len(hand'[q]) \in SpecifiedHandSizes]_vars

\* C22: after a successful start_game the variant table is seeded: Scat and
\* Rummy have exactly one card on the discard pile, every Scat player has 3
\* lives, Kings Corner has 4 foundation piles of one non-King card each and 4
\* empty corner piles, every Rummy player has an empty meld list and every
\* Go Fish player an empty set list.
C22_TableSeeded ==
  [][FirstStart =>
       /\ game \in {"scat", "rummy"} => Len(discard_pile') = 1
       /\ game = "scat" =>
            \A q \in Roster : q \in DOMAIN lives' /\ lives'[q] = ScatInitialLives
       /\ game = "kings_corner" =>
            /\ DOMAIN piles' = PileIds
            /\ \A pile_id \in PileIds :
                 IF IsCorner(pile_id) THEN piles'[pile_id] = <<>>
                 ELSE /\ Len(piles'[pile_id]) = 1
                      /\ RankOf(piles'[pile_id][1]) # KING
       /\ game = "rummy" => \A q \in Roster : q \in DOMAIN melds' /\ melds'[q] = <<>>
       /\ game = "go_fish" => \A q \in Roster : q \in DOMAIN sets' /\ sets'[q] = <<>>]_vars

\* every player of the roster has placed a bid for the round
AllHaveBid == \A q \in Roster : q \in DOMAIN bids /\ bids[q] \in 0..SpadesHandSize

\* C23: in Spades no card can be played before each of the four players has
\* placed a bid in 0..13, the first round after start_game included; a bid
\* outside 0..13 or out of turn is rejected and leaves the bids unchanged.
C23_BidsBeforePlay ==
  [][/\ \A p \in PlayerIds, i \in CardIndexInputs :
          (game = "spades" /\ SpadesPlayCard(p, i) /\ outcome' = "ok") => AllHaveBid
     /\ \A p \in PlayerIds, bid \in {-1, 0, SpadesHandSize, SpadesHandSize + 1} :
          (/\ game = "spades"
           /\ SpadesMakeBid(p, bid)
           /\ bid \notin 0..SpadesHandSize \/ ~IsCurrent(p)) =>
             (outcome' = "error" /\ bids' = bids)]_vars

\* the step that plays the last card of a Spades hand, every player having a
\* bid: the trick is complete and _score_hand runs
LastCardPlayed ==
  /\ game = "spades"
  /\ state = "playing"
  /\ AllHaveBid
  /\ Len(current_trick) = SpadesRequiredPlayers - 1
  /\ HasCurrentPlayer
  /\ \A q \in Roster : Len(hand[q]) = IF q = current_player THEN 1 ELSE 0
  /\ \E i \in CardIndexInputs : SpadesPlayCard(current_player, i)
  /\ outcome' = "ok"

\* the tricks player q has won in the hand the step ends
TricksOfHand(q) ==
  LET last == Append(current_trick, [pid |-> current_player, card |-> hand[current_player][1]])
  IN tricks_won[q] + IF q = RuleWinner(last) THEN 1 ELSE 0

\* C24: when a Spades hand is scored, a player with bid b in 0..13 and t tricks
\* gains 10*b + (t - b) if t >= b and loses 10*b if t < b; on a made bid the
\* bags grow by t - b, and when they reach 10 or more the player loses another
\* 100 points and the bags go down by 10.
C24_RoundScoring ==
  [][LastCardPlayed =>
       \A q \in Roster :
         LET t == TricksOfHand(q)
             b == bids[q]
             grown == bags[q] + (t - b)
         IN IF t < b THEN scores'[q] = scores[q] - 10 * b
            ELSE IF grown >= 10
              THEN scores'[q] = scores[q] + 10 * b + (t - b) - 100 /\ bags'[q] = grown - 10
              ELSE scores'[q] = scores[q] + 10 * b + (t - b) /\ bags'[q] = grown]_vars

\* a hand has been scored in which a bid was made without penalty, a bid
\* was made with the bag penalty and a bid was missed
C24_Witness ==
  /\ game = "spades"
  /\ state = "starting"
  /\ last_action = "hand_scored"
  /\ \E q \in Roster : scores[q] = FirstHandTricks[q] - 9 - 10 * 3
  /\ \E q \in Roster : scores[q] < FirstHandTricks[q] - 9 - 10 * 3
  /\ \E q \in Roster : scores[q] > FirstHandTricks[q] - 9

\* card c of hand h may be played: a spade leads only when spades are broken
\* or the hand is all spades, and a card of another suit than the one led is
\* played only from a hand without the led suit
PlayAllowed(h, c) ==
  IF current_trick = <<>>
    THEN SuitOf(c) = SPADES => (spades_broken \/ \A x \in 1..Len(h) : SuitOf(h[x]) = SPADES)
    ELSE (\E x \in 1..Len(h) : SuitOf(h[x]) = SuitOf(current_trick[1].card))
           => SuitOf(c) = SuitOf(current_trick[1].card)

\* the step deals the hands of a new round
NewRoundDealt ==
  \/ (\E k \in 1..NumShuffles : StartGame(k)) /\ outcome' = "ok"
  \/ (\E p \in PlayerIds, i \in CardIndexInputs : SpadesPlayCard(p, i))
       /\ outcome' = "ok" /\ state = "playing" /\ state' = "starting"

\* C25: a Spades play that is accepted is allowed (spade leads only when
\* spades are broken or the leader holds only spades; follow the led suit
\* when holding it), a play that is not allowed is rejected with hand and
\* trick unchanged, and spades_broken tells whether a spade has been played
\* in the current round: a played spade sets it, a card of another suit
\* leaves it, a newly dealt round starts with it false.
C25_PlayLegality ==
  [][game = "spades" =>
       /\ \A p \in PlayerIds, i \in CardIndexInputs :
            (MayAct(p) /\ ValidIndex(hand[p], i) /\ SpadesPlayCard(p, i)) =>
              IF PlayAllowed(hand[p], hand[p][i + 1])
                THEN (outcome' = "ok" /\ state' = "playing") =>
                       spades_broken' = (spades_broken \/ SuitOf(hand[p][i + 1]) = SPADES)
                ELSE outcome' = "error" /\ hand' = hand /\ current_trick' = current_trick
       /\ NewRoundDealt => ~spades_broken']_vars

\* the knocker p makes the closing discard of card index i, which resolves
\* the round
ClosingDiscard(p, i) ==
  /\ game = "scat"
  /\ final_round
  /\ p = knocked_player_id
  /\ MayAct(p)
  /\ ValidIndex(hand[p], i)
  /\ ScatDiscardCard(p, i)

\* the players with the lowest hand value once p has discarded card index i
RoundLosers(p, i) ==
  LET left(q) == IF q = p THEN SeqToSet(RemoveAt(hand[p], i + 1)) ELSE SeqToSet(hand[q])
  IN {q \in Roster : \A o \in Roster : RuleHandValue(left(q)) <= RuleHandValue(left(o))}

\* C26: a Scat round resolution takes one life from exactly the players with
\* the lowest hand value and leaves the other lives alone, no step gives a
\* player a life back, and the game is in GAME_END after a resolution exactly
\* when at most one player still has a life.
C26_LivesAndGameEnd ==
  [][game = "scat" =>
       /\ \A p \in PlayerIds, i \in CardIndexInputs :
            ClosingDiscard(p, i) =>
              /\ outcome' = "ok"
              /\ \A q \in Roster :
                   /\ q \in DOMAIN lives /\ q \in DOMAIN lives'
                   /\ lives'[q] = IF q \in RoundLosers(p, i) THEN Max(0, lives[q] - 1)
                                  ELSE lives[q]
              /\ state' = "game_end" <=> Cardinality({q \in Roster : lives'[q] > 0}) <= 1
       /\ NoLifecycleStep =>
            \A q \in DOMAIN lives \cap DOMAIN lives' : lives'[q] <= lives[q]]_vars

\* C27: a Scat knock is accepted only from the current player holding exactly
\* 3 cards while no final round is in progress; in the final round a discard
\* of another player passes the turn on without resolving the round, and the
\* knocker's own discard resolves it: the call returns, and the final round
\* is over.
C27_KnockProtocol ==
  [][game = "scat" =>
       /\ \A p \in PlayerIds :
            (ScatKnock(p) /\ outcome' = "ok") =>
              /\ IsCurrent(p) /\ Len(hand[p]) = ScatHandSize /\ ~final_round
              /\ final_round' /\ knocked_player_id' = p
       /\ \A p \in PlayerIds, i \in CardIndexInputs :
            (/\ final_round /\ p # knocked_player_id /\ MayAct(p) /\ ValidIndex(hand[p], i)
             /\ ScatDiscardCard(p, i)) =>
              /\ final_round' /\ knocked_player_id' = knocked_player_id /\ state' = "playing"
              /\ current_player_idx' = next_turn(current_player_idx)
       /\ \A p \in PlayerIds, i \in CardIndexInputs :
            ClosingDiscard(p, i) => (outcome' = "ok" /\ ~final_round')]_vars

\* C28: in a Scat game in PLAYING every hand has 3 or 4 cards and only the
\* current player can hold 4, and a successful discard_card leaves the
\* discarding player with exactly 3 cards.
C28_HandSizeCycle ==
  [][game = "scat" =>
       /\ state' = "playing" =>
            \A q \in Roster :
              /\ Len(hand'[q]) \in {ScatHandSize, ScatHandSize + 1}
              /\ Len(hand'[q]) = ScatHandSize + 1 =>
                   players[current_player_idx' + 1] = q
       /\ \A p \in PlayerIds, i \in CardIndexInputs :
            (ScatDiscardCard(p, i) /\ outcome' = "ok") => Len(hand'[p]) = ScatHandSize]_vars

\* the cards S form a meld: at least three cards, all of one rank and of
\* different suits, or all of one suit with ranks that follow each other in
\* the order Ace, 2, ..., King
IsSetOfRank(S) ==
  /\ \A a, b \in S : RankOf(a) = RankOf(b)
  /\ \A a, b \in S : a # b => SuitOf(a) # SuitOf(b)
IsRunOfSuit(S) ==
  /\ \A a, b \in S : SuitOf(a) = SuitOf(b)
  /\ \E low \in 0..(NumRanks - 1) :
       {RankOf(c) : c \in S} = low..(low + Cardinality(S) - 1)
IsMeld(S) == Cardinality(S) >= 3 /\ (IsSetOfRank(S) \/ IsRunOfSuit(S))

\* C29: lay_meld by the player to move, on cards of the hand, is accepted if
\* and only if the selected cards are at least 3 and form a set or a run,
\* wherever they sit in the hand.
C29_MeldAcceptance ==
  [][\A p \in PlayerIds, card_indices \in MeldSelections :
       (/\ game = "rummy"
        /\ MayAct(p)
        /\ \A x \in 1..Len(card_indices) : ValidIndex(hand[p], card_indices[x])
        /\ RummyLayMeld(p, card_indices)) =>
         (outcome' = "ok" <=>
            /\ Len(card_indices) >= 3
            /\ IsMeld({hand[p][card_indices[x] + 1] : x \in 1..Len(card_indices)}))]_vars

\* player p, whose turn it is and who may draw, draws from the deck
DeckDrawBy(p) ==
  \/ game = "scat" /\ MayAct(p) /\ Len(hand[p]) <= ScatHandSize /\ ScatDrawCard(p, FALSE)
  \/ game = "rummy" /\ MayAct(p) /\ RummyDrawCard(p, FALSE)

\* C30: in Rummy and Scat a draw from the empty deck while the discard pile
\* holds more than one card succeeds, leaves exactly the former top card on
\* the discard pile and makes the other discards the deck (one of them is the
\* card drawn); a deck draw by the player to move fails only when the deck is
\* empty and the discard pile holds at most one card, and then nothing changes.
C30_DeckExhaustion ==
  [][\A p \in PlayerIds :
       DeckDrawBy(p) =>
         IF deck # <<>>
           THEN outcome' = "ok" /\ discard_pile' = discard_pile
         ELSE IF Len(discard_pile) > 1
           THEN /\ outcome' = "ok"
                /\ discard_pile' = <<Last(discard_pile)>>
                /\ Len(hand'[p]) = Len(hand[p]) + 1
                /\ Len(deck') = Len(discard_pile) - 2
                /\ SeqToSet(deck') \cup {Last(hand'[p])}
                     = SeqToSet(DropLast(discard_pile, 1))
         ELSE outcome' = "error" /\ engine' = engine]_vars

\* a draw from the empty deck has turned a discard pile of several cards into
\* the deck and left its top card
C30_Witness ==
  /\ game \in {"scat", "rummy"}
  /\ last_action = "card_drawn"
  /\ outcome = "ok"
  /\ Len(discard_pile) = 1
  /\ Len(deck) > 1

\* C31: in Rummy, Kings Corner and Bluff a game action that leaves a player's
\* hand empty puts the game in GAME_END in that same action, so no PLAYING
\* state follows in which a player has no card.
C31_WinOnEmptyHand ==
  [][(/\ game \in {"rummy", "kings_corner", "bluff"}
      /\ NoLifecycleStep
      /\ \E q \in Roster : hand[q] # <<>> /\ hand'[q] = <<>>) => state' = "game_end"]_vars

\* C32: in Snap a successful play_card or snap that leaves the game in PLAYING
\* leaves at least two players holding cards; the game ends as soon as only
\* one player has cards.
C32_SnapGameEnd ==
  [][(/\ game = "snap"
      /\ NoLifecycleStep
      /\ outcome' = "ok"
      /\ hand' # hand
      /\ state' = "playing") => Len(players_with_cards(hand')) >= 2]_vars

\* C39: in Snap, after a successful play_card or snap that leaves the game in
\* PLAYING, the player at current_player_idx holds at least one card.
C39_SnapTurnLiveness ==
  [][(/\ game = "snap"
      /\ NoLifecycleStep
      /\ outcome' = "ok"
      /\ hand' # hand
      /\ state' = "playing") => hand'[players[current_player_idx' + 1]] # <<>>]_vars


\* C33: in Go Fish, when the current player asks a target who holds at least
\* one card of the requested rank, all of those cards go to the asker and the
\* asker remains the current player.
HoldsRank(q, rank) == \E i \in 1..Len(hand[q]) : RankOf(hand[q][i]) = rank

C33_GoFishTurnRetention ==
  [][\A asker, target \in Roster, rank \in 0..MaxIndex :
       (/\ GoFishAskForCards(asker, target, rank)
        /\ state = "playing"
        /\ IsCurrent(asker)
        /\ asker # target
        /\ HoldsRank(target, rank))
       => /\ current_player_idx' = current_player_idx
          /\ \A i \in 1..Len(hand'[target]) : RankOf(hand'[target][i]) # rank]_vars

\* C34: in Spoons, once the game has been started with n players, the spoons
\* left and the players who have grabbed add up to n - 1; the game is in
\* GAME_END exactly when no spoon is left, and then exactly one player has not
\* grabbed and is recorded as the loser.
C34_SpoonsGrabAccounting ==
  (game = "spoons" /\ state \in {"playing", "game_end"}) =>
     /\ spoons + Cardinality(grabbed_spoons) = Len(players) - 1
     /\ (state = "game_end") = (spoons = 0)
     /\ spoons = 0 => /\ Cardinality(Roster \ grabbed_spoons) = 1
                      /\ loser \in Roster \ grabbed_spoons

\* C35: in Spoons, play_turn by the current player with a valid card index
\* succeeds.
C35_SpoonsPlayTurnSucceeds ==
  [][\A p \in Roster, i \in CardIndexInputs :
       (SpoonsPlayTurn(p, i) /\ MayAct(p) /\ ValidIndex(hand[p], i)) => outcome' = "ok"]_vars

\* C36: in Bluff every successful play_cards, a play of the last card of a
\* hand included, leaves the game open to a challenge of that play: the game
\* is still PLAYING and the play lies on the centre pile.
C36_ChallengeAvailable ==
  [][\A p \in Roster, i \in CardIndexInputs, r \in ClaimInputs :
       (/\ game = "bluff"
        /\ MayAct(p)
        /\ BluffPlayCards(p, <<i>>, r)
        /\ outcome' = "ok"
        /\ Len(bluff_pile') = Len(bluff_pile) + 1)
       => state' = "playing" /\ bluff_pile' # <<>>]_vars

\* C38: in Bluff the player who made the most recent play cannot challenge
\* it: such a challenge is rejected and changes neither hands nor scores.
C38_NoSelfChallenge ==
  [][\A c \in PlayerIds :
       (Challenged(c) /\ c = last_play_by) =>
         outcome' = "error" /\ hand' = hand /\ score' = score]_vars

RECURSIVE SumOver(_, _)
SumOver(f, S) ==
  IF S = {} THEN 0
  ELSE LET x == CHOOSE y \in S : TRUE IN f[x] + SumOver(f, S \ {x})
TricksCounted(tw) == SumOver(tw, DOMAIN tw)

\* the current player plays, by a legal play_card, the fourth card of a trick
FourthCardPlayed ==
  /\ game = "spades"
  /\ state = "playing"
  /\ HasCurrentPlayer
  /\ Len(current_trick) = SpadesRequiredPlayers - 1
  /\ \E i \in CardIndexInputs :
       /\ ValidIndex(hand[current_player], i)
       /\ SpadesLegal(hand[current_player], hand[current_player][i + 1])
       /\ SpadesPlayCard(current_player, i)

\* that card is the last card any player holds
HandPlayedOut == \A q \in Roster : Len(hand[q]) = IF q = current_player THEN 1 ELSE 0

\* the step scores a round: the game leaves PLAYING
RoundScored == state = "playing" /\ state' # "playing"

\* C40: in Spades the fourth card of a trick empties current_trick and, unless
\* it ends the round, adds one trick to the trick winner alone and makes the
\* winner the current player; no other game step changes the number of tricks
\* counted, so the count is the number of tricks completed in the round; and a
\* round is scored exactly by the card that completes the thirteenth trick and
\* leaves all hands empty.
C40_TrickAccounting ==
  [][(game = "spades" /\ NoLifecycleStep) =>
       /\ (FourthCardPlayed /\ ~HandPlayedOut) =>
            LET w == RuleWinner(CompletedTrick)
            IN /\ current_trick' = <<>>
               /\ tricks_won' = [tricks_won EXCEPT ![w] = @ + 1]
               /\ players[current_player_idx' + 1] = w
       /\ (FourthCardPlayed /\ HandPlayedOut) => current_trick' = <<>>
       /\ ~FourthCardPlayed => TricksCounted(tricks_won') = TricksCounted(tricks_won)
       /\ RoundScored <=> /\ FourthCardPlayed
                          /\ HandPlayedOut
                          /\ TricksCounted(tricks_won) + 1 = SpadesHandSize]_vars

====
